---------------------------- MODULE Spec2Model ----------------------------
(***************************************************************************)
(* Device configuration synchronisation.                                   *)
(*                                                                         *)
(*   server/src/main.rs            the management service: device          *)
(*                                 registry, snapshot log, admin configs   *)
(*   src-tauri/src/services/                                               *)
(*     management_sync.rs          the client: scheduler, one sync round,  *)
(*                                 applying a pushed admin config          *)
(*                                                                         *)
(* Every HTTP handler of the server is an async function whose database    *)
(* statements are awaited one by one: a request is a process that takes    *)
(* one step per statement, and requests interleave between statements.     *)
(* Each SQL statement is one atomic step.                                  *)
(***************************************************************************)
EXTENDS Integers, Sequences, FiniteSets, TLC

(***************************************************************************)
(* Bounds of the model.                                                    *)
(***************************************************************************)
\* The server clock runs from 0 to MaxTime.
MaxTime == 1
\* At most MaxWrites admin-config writes are made per device id.
MaxWrites == 2
\* At most MaxSnapshots sync requests are accepted.
MaxSnapshots == 2
\* The recurring loop is followed until MaxSleepDays days after LastDay.
MaxSleepDays == 2
\* The snapshot listing is followed on a log of up to MaxListed snapshots.
MaxListed == 21
\* The recurring loop with its runs is followed over MaxLoopDays wakes.
MaxLoopDays == 2

(***************************************************************************)
(* Option<T>: None is the empty tuple, Some(x) the one-element tuple.      *)
(***************************************************************************)
None == << >>
Some(x) == << x >>
IsSome(o) == Len(o) = 1
IsNone(o) == Len(o) = 0
Unwrap(o) == o[1]

Range(s) == { s[i] : i \in DOMAIN s }
Max(a, b) == IF a >= b THEN a ELSE b
Min(a, b) == IF a <= b THEN a ELSE b

(***************************************************************************)
(* Values                                                                  *)
(***************************************************************************)
\* Device ids that requests carry; the blank one fails validation.
DeviceIds == { "d1", "d2" }
BlankIds == { "" }
\* String::trim().is_empty()
IsBlank(text) == text \in BlankIds

\* The three app types, in the order apply_admin_config visits them.
AppTypes == << "claude", "codex", "gemini" >>

\* AppProviderSnapshot { current_id, providers }: providers is an ordered,
\* key-unique map, written as a sequence of [id, data] entries.
AppProviderSnapshot(current_id, providers) ==
    [ current_id |-> current_id, providers |-> providers ]
\* DeviceConfigSnapshot { claude, codex, gemini }
DeviceConfigSnapshot(claude, codex, gemini) ==
    [ claude |-> claude, codex |-> codex, gemini |-> gemini ]

Entry(id, data) == [ id |-> id, data |-> data ]

\* Documents used as request bodies (snapshots and admin configs).
DocA == DeviceConfigSnapshot(
            Some(AppProviderSnapshot(Some("a"), << Entry("a", "x") >>)),
            None, None)
DocB == DeviceConfigSnapshot(
            Some(AppProviderSnapshot(Some("b"),
                                     << Entry("b", "y"), Entry("c", "x") >>)),
            Some(AppProviderSnapshot(Some("a"), << Entry("a", "y") >>)),
            None)
\* codex names a current provider that is not a key of its providers.
DocBadKey == DeviceConfigSnapshot(
            Some(AppProviderSnapshot(Some("c"), << Entry("c", "y") >>)),
            Some(AppProviderSnapshot(Some("z"), << Entry("a", "x") >>)),
            Some(AppProviderSnapshot(Some("a"), << Entry("a", "x") >>)))
\* claude has no current provider.
DocNoCurrent == DeviceConfigSnapshot(
            Some(AppProviderSnapshot(None, << Entry("a", "y") >>)),
            None,
            Some(AppProviderSnapshot(Some("b"), << Entry("b", "x") >>)))

(***************************************************************************)
(* JSON.  A value is null, a string, an object (its members in the order   *)
(* they are written) or a provider, which is carried as it is.             *)
(***************************************************************************)
JsonNull == [ json |-> "null" ]
JsonString(text) == [ json |-> "string", text |-> text ]
JsonProvider(provider) == [ json |-> "provider", provider |-> provider ]
Member(key, value) == [ key |-> key, value |-> value ]
JsonObject(members) == [ json |-> "object", members |-> members ]

\* serde::Serialize of AppProviderSnapshot (camelCase): currentId, and
\* providers, the IndexMap in its order.
app_to_json(app) ==
    IF IsNone(app) THEN JsonNull
    ELSE JsonObject(<<
            Member("currentId", IF IsNone(Unwrap(app).current_id) THEN JsonNull
                                ELSE JsonString(Unwrap(Unwrap(app).current_id))),
            Member("providers", JsonObject(
                [ i \in DOMAIN Unwrap(app).providers |->
                    Member(Unwrap(app).providers[i].id,
                           JsonProvider(Unwrap(app).providers[i])) ])) >>)

\* serde::Serialize of DeviceConfigSnapshot
to_json(snapshot) ==
    JsonObject(<< Member("claude", app_to_json(snapshot.claude)),
                  Member("codex", app_to_json(snapshot.codex)),
                  Member("gemini", app_to_json(snapshot.gemini)) >>)

\* The keys that occur, in the order of their bytes (a serde_json Map that
\* does not preserve order) and in the order of a jsonb column (shorter
\* keys first).
KeysBytewise == << "a", "b", "c", "claude", "codex", "currentId", "gemini", "l",
                  "providers", "z" >>
KeysJsonb == << "a", "b", "c", "l", "z", "codex", "claude", "gemini", "currentId",
               "providers" >>

\* The value of the last member of an object that has the key.
member_value(members, key) ==
    members[CHOOSE i \in DOMAIN members :
              /\ members[i].key = key
              /\ \A j \in DOMAIN members : members[j].key = key => j <= i].value

\* The keys of `order` from position i on that the members have, in order.
RECURSIVE keys_in(_, _, _)
keys_in(members, order, i) ==
    IF i > Len(order) THEN << >>
    ELSE (IF \E j \in DOMAIN members : members[j].key = order[i]
          THEN << order[i] >> ELSE << >>) \o keys_in(members, order, i + 1)

\* A value with the members of every object in the given order of keys, one
\* member per key.
RECURSIVE sorted_json(_, _)
sorted_json(value, order) ==
    IF value.json # "object" THEN value
    ELSE LET keys == keys_in(value.members, order, 1)
         IN  JsonObject([ i \in DOMAIN keys |->
                 Member(keys[i], sorted_json(member_value(value.members, keys[i]), order)) ])

\* (A faulty variant of stored_body: members that are null are dropped.)
RECURSIVE without_nulls(_)
without_nulls(value) ==
    IF value.json # "object" THEN value
    ELSE LET kept == SelectSeq(value.members, LAMBDA member : member.value.json # "null")
         IN  JsonObject([ i \in DOMAIN kept |->
                 Member(kept[i].key, without_nulls(kept[i].value)) ])
stored_body_without_nulls(body, order) == without_nulls(body)

\* What a body that arrives as Json(payload) and is bound as SqlxJson to the
\* snapshot column is when read back.  The builds differ in whether the
\* members of an object keep their order: the Map of serde_json::Value
\* keeps it or orders the keys by their bytes, a jsonb column orders them
\* with shorter keys first.
JsonOrders == { "kept", "bytewise", "jsonb" }
stored_body(body, order) ==
    IF order = "kept" THEN body
    ELSE IF order = "bytewise" THEN sorted_json(body, KeysBytewise)
    ELSE sorted_json(body, KeysJsonb)

\* Structural equality of JSON values: objects are equal if they have the
\* same keys with equal values, in whatever order.
RECURSIVE json_equal(_, _)
json_equal(a, b) ==
    IF a.json # b.json THEN FALSE
    ELSE IF a.json # "object" THEN a = b
    ELSE LET keys(v) == { v.members[i].key : i \in DOMAIN v.members }
         IN  /\ keys(a) = keys(b)
             /\ \A key \in keys(a) :
                   json_equal(member_value(a.members, key), member_value(b.members, key))

\* Bodies of the requests the server receives.
SnapshotBodies == { to_json(DocA), to_json(DocB) }
ConfigBodies == { DocA, DocB }

\* What a sync request carries besides the device id: app_version,
\* applied_admin_version, snapshot, and the peer address it comes from.
SyncInput(app_version, applied, snapshot, ip) ==
    [ app_version |-> app_version, applied_admin_version |-> applied,
      snapshot |-> snapshot, ip |-> ip ]
SyncInputs == { SyncInput(Some("1.0"), None, to_json(DocA), "ip1"),
                SyncInput(None, Some(1), to_json(DocB), "ip2"),
                SyncInput(Some("1.1"), Some(2), to_json(DocA), "ip2") }

(***************************************************************************)
(* Authorization header and the server's secrets (AppState).               *)
(***************************************************************************)
sync_token == "sync-secret"
admin_token == "admin-secret"
basic_pair == << "admin", "pw" >>

Bearer(token) == << "Bearer", token >>
Basic(user, pass) == << "Basic", user, pass >>
NoHeader == << "" >>
Headers == { NoHeader, Bearer(sync_token), Bearer(admin_token),
             Basic("admin", "pw"), Basic("admin", "bad") }

VARIABLES
    \* ---- server (main.rs) ----
    devices,            \* table devices: a set of rows
    config_snapshots,   \* table config_snapshots: rows in insertion order
    admin_configs,      \* table admin_configs: a set of rows
    admin_basic,        \* AppState.admin_basic_user/_password: None or Some(pair)
    json_order,         \* the build: how a stored JSON object orders its members
    clock,              \* Utc::now()
    reqs,               \* the requests being handled, by slot
    response,           \* the response the last step sent, if it sent one
    \* ---- history of the run (read by the properties only) ----
    h_ret,              \* per device id: the versions upsert_admin_config_value returned, in order
    h_last,             \* per device id: config and timestamp of the last admin-config write
    h_sync,             \* per device id: what the first and the latest upsert_device bound
    h_done,             \* per device id: highest admin version a finished push or sync reported
    h_track,            \* whether h_done is kept (only the specification that reads it keeps it)
    h_syncs,            \* None, or Some of: per device id, the syncs answered with ok and those that failed after their insert
    \* ---- client (management_sync.rs, build.rs) ----
    build,              \* what build.rs bakes in: url, token, SYNC_ON_START
    settings,           \* the settings store: key -> None or Some(text)
    providers,          \* the provider store: app type -> entries in insertion order
    current,            \* the provider store: app type -> id of the active provider, "" if none
    tasks,              \* the two spawned tasks of start(): position and locals of their run_once
    h_log,              \* per task: the store writes its current (or last) run has made, in order
    delay,              \* what next_beijing_4am_delay gave the recurring loop to sleep, if it sleeps
    h_start             \* per task: the applied-version setting when that run began

serverVars == << devices, config_snapshots, admin_configs, admin_basic, json_order, clock, reqs, response >>
histVars == << h_ret, h_last, h_sync, h_done, h_track, h_syncs >>
clientVars == << build, settings, providers, current, tasks, delay, h_log, h_start >>
vars == << serverVars, histVars, clientVars >>

\* At most two requests are handled at a time.
Slots == { 1, 2 }

(***************************************************************************)
(* main.rs: authorization                                                  *)
(***************************************************************************)
\* authorize_bearer: the header must be exactly "Bearer <expected>".
authorize_bearer(header, expected) == header = Bearer(expected)

\* extract_bearer_token: the text after "Bearer ", if the header has it.
extract_bearer_token(header) ==
    IF header[1] = "Bearer" THEN Some(header[2]) ELSE None

\* extract_basic_auth: user and password of a "Basic " header.
extract_basic_auth(header) ==
    IF header[1] = "Basic" THEN Some(<< header[2], header[3] >>) ELSE None

\* (A faulty variant of authorize_admin: with a basic pair configured, any
\* Basic header passes.)
authorize_admin_any_basic(header, basic) ==
    \/ /\ IsSome(extract_bearer_token(header))
       /\ Unwrap(extract_bearer_token(header)) = admin_token
    \/ /\ IsSome(basic)
       /\ IsSome(extract_basic_auth(header))

\* authorize_admin: the admin bearer token, or the configured basic pair.
authorize_admin(header, basic) ==
    \/ /\ IsSome(extract_bearer_token(header))
       /\ Unwrap(extract_bearer_token(header)) = admin_token
    \/ /\ IsSome(basic)
       /\ IsSome(extract_basic_auth(header))
       /\ Unwrap(extract_basic_auth(header)) = Unwrap(basic)

(***************************************************************************)
(* main.rs: GeoIP                                                          *)
(***************************************************************************)
GeoResult(country, region, city) ==
    [ country |-> country, region |-> region, city |-> city ]

\* lookup_geo: None when there is no database or the lookup fails; the
\* database here knows ip1 only.
lookup_geo(ip) ==
    IF ip = "ip1" THEN Some(GeoResult(Some("CN"), Some("BJ"), None)) ELSE None

(***************************************************************************)
(* main.rs: the SQL statements, as functions of the table they act on      *)
(***************************************************************************)
\* Faulty variants of the statements below.  Each one breaks one property
\* of the statement it stands for; the properties must tell them apart.
\* An upsert whose conflict branch overwrites the whole row, created_at included.
upsert_device_replacing(rows, payload, now, ip, geo) ==
    { r \in rows : r.device_id # payload.device_id } \cup
    { [ device_id |-> payload.device_id,
        fingerprint_hash |-> payload.device_id,
        last_seen |-> now,
        last_ip |-> ip,
        geo_country |-> IF IsSome(geo) THEN Unwrap(geo).country ELSE None,
        geo_region |-> IF IsSome(geo) THEN Unwrap(geo).region ELSE None,
        geo_city |-> IF IsSome(geo) THEN Unwrap(geo).city ELSE None,
        app_version |-> payload.app_version,
        created_at |-> now ] }

\* A write whose conflict branch does not increment the version.
upsert_without_increment(rows, device_id, config, now) ==
    LET conflict == { r \in rows : r.device_id = device_id }
        new == IF conflict = {}
               THEN { [ device_id |-> device_id, version |-> 1,
                        config |-> config, updated_at |-> now ] }
               ELSE { [ r EXCEPT !.config = config, !.updated_at = now ] : r \in conflict }
    IN  [ rows |-> (rows \ conflict) \cup new,
          version |-> (CHOOSE r \in new : TRUE).version ]

\* A write that returns the version it found instead of the one it stored.
upsert_returning_old(rows, device_id, config, now) ==
    LET conflict == { r \in rows : r.device_id = device_id }
        new == IF conflict = {}
               THEN { [ device_id |-> device_id, version |-> 1,
                        config |-> config, updated_at |-> now ] }
               ELSE { [ r EXCEPT !.version = r.version + 1,
                                 !.config = config,
                                 !.updated_at = now ] : r \in conflict }
    IN  [ rows |-> (rows \ conflict) \cup new,
          version |-> IF conflict = {} THEN 1
                      ELSE (CHOOSE r \in conflict : TRUE).version ]

\* A write whose conflict branch keeps the old updated_at.
upsert_keeping_timestamp(rows, device_id, config, now) ==
    LET conflict == { r \in rows : r.device_id = device_id }
        new == IF conflict = {}
               THEN { [ device_id |-> device_id, version |-> 1,
                        config |-> config, updated_at |-> now ] }
               ELSE { [ r EXCEPT !.version = r.version + 1,
                                 !.config = config ] : r \in conflict }
    IN  [ rows |-> (rows \ conflict) \cup new,
          version |-> (CHOOSE r \in new : TRUE).version ]

\* A read that always reports version 1.
fetch_first_version(rows, device_id) ==
    LET found == { r \in rows : r.device_id = device_id }
    IN  IF found = {} THEN None
        ELSE Some([ version |-> 1, config |-> (CHOOSE r \in found : TRUE).config ])

\* A selection that does not filter by the registry.
select_requested_ids(rows, device_ids) == Range(device_ids)

\* (A faulty variant of upsert_device: an UPDATE, which registers nothing.)
upsert_device_update_only(rows, payload, now, ip, geo) ==
    { IF r.device_id = payload.device_id
      THEN [ r EXCEPT !.last_seen = now, !.last_ip = ip, !.app_version = payload.app_version ]
      ELSE r : r \in rows }

\* upsert_device: INSERT INTO devices ... ON CONFLICT (device_id) DO UPDATE
\* SET last_seen, last_ip, geo_*, app_version (created_at is not in the SET).
upsert_device(rows, payload, now, ip, geo) ==
    LET new == [ device_id |-> payload.device_id,
                 fingerprint_hash |-> payload.device_id,
                 last_seen |-> now,
                 last_ip |-> ip,
                 geo_country |-> IF IsSome(geo) THEN Unwrap(geo).country ELSE None,
                 geo_region |-> IF IsSome(geo) THEN Unwrap(geo).region ELSE None,
                 geo_city |-> IF IsSome(geo) THEN Unwrap(geo).city ELSE None,
                 app_version |-> payload.app_version,
                 created_at |-> now ]
        conflict == { r \in rows : r.device_id = new.device_id }
    IN  IF conflict = {}
        THEN rows \cup { new }
        ELSE (rows \ conflict) \cup
             { [ r EXCEPT !.last_seen = new.last_seen,
                          !.last_ip = new.last_ip,
                          !.geo_country = new.geo_country,
                          !.geo_region = new.geo_region,
                          !.geo_city = new.geo_city,
                          !.app_version = new.app_version ] : r \in conflict }

\* (A faulty variant of insert_snapshot: a body the device has logged before
\* is not logged again.)
insert_snapshot_once(rows, device_id, snapshot, now) ==
    IF \E i \in DOMAIN rows : rows[i].device_id = device_id /\ rows[i].snapshot = snapshot
    THEN rows
    ELSE Append(rows, [ id |-> Len(rows) + 1, device_id |-> device_id,
                        snapshot |-> snapshot, created_at |-> now ])

\* insert_snapshot: INSERT INTO config_snapshots (device_id, snapshot, created_at).
insert_snapshot(rows, device_id, snapshot, now) ==
    Append(rows, [ id |-> Len(rows) + 1, device_id |-> device_id,
                   snapshot |-> snapshot, created_at |-> now ])

\* The row SELECT ... FROM admin_configs WHERE device_id = $1 finds, if any.
admin_row(rows, device_id) ==
    LET found == { r \in rows : r.device_id = device_id }
    IN  IF found = {} THEN None ELSE Some(CHOOSE r \in found : TRUE)

\* fetch_admin_config: SELECT version, config.
fetch_admin_config(rows, device_id) ==
    LET row == admin_row(rows, device_id)
    IN  IF IsNone(row) THEN None
        ELSE Some([ version |-> Unwrap(row).version, config |-> Unwrap(row).config ])

\* (A faulty variant of upsert_admin_config_value: an UPDATE, which stores
\* nothing for a device id that has no row.)
upsert_existing_only(rows, device_id, config, now) ==
    LET conflict == { r \in rows : r.device_id = device_id }
        new == { [ r EXCEPT !.version = r.version + 1,
                            !.config = config,
                            !.updated_at = now ] : r \in conflict }
    IN  [ rows |-> (rows \ conflict) \cup new,
          version |-> IF new = {} THEN 1 ELSE (CHOOSE r \in new : TRUE).version ]

\* (A faulty variant of upsert_admin_config_value: the update is made to
\* every row when the device id has one.)
upsert_updating_all(rows, device_id, config, now) ==
    LET conflict == { r \in rows : r.device_id = device_id }
        new == IF conflict = {}
               THEN rows \cup { [ device_id |-> device_id, version |-> 1,
                                  config |-> config, updated_at |-> now ] }
               ELSE { [ r EXCEPT !.version = r.version + 1,
                                 !.config = config,
                                 !.updated_at = now ] : r \in rows }
    IN  [ rows |-> new,
          version |-> (CHOOSE r \in new : r.device_id = device_id).version ]

\* upsert_admin_config_value: INSERT ... VALUES ($1, 1, $2, $3)
\* ON CONFLICT (device_id) DO UPDATE SET version = admin_configs.version + 1,
\* config, updated_at RETURNING version.  Gives the new table and the
\* returned version.
upsert_admin_config_value(rows, device_id, config, now) ==
    LET conflict == { r \in rows : r.device_id = device_id }
        new == IF conflict = {}
               THEN { [ device_id |-> device_id, version |-> 1,
                        config |-> config, updated_at |-> now ] }
               ELSE { [ r EXCEPT !.version = r.version + 1,
                                 !.config = config,
                                 !.updated_at = now ] : r \in conflict }
    IN  [ rows |-> (rows \ conflict) \cup new,
          version |-> (CHOOSE r \in new : TRUE).version ]

\* SELECT device_id FROM devices WHERE device_id = ANY($1)
select_existing_ids(rows, device_ids) ==
    { r.device_id : r \in { x \in rows : x.device_id \in Range(device_ids) } }

\* get_device_detail: SELECT ... FROM devices WHERE device_id = $1
device_row(rows, device_id) ==
    LET found == { r \in rows : r.device_id = device_id }
    IN  IF found = {} THEN None ELSE Some(CHOOSE r \in found : TRUE)

\* get_device_detail: SELECT COUNT(id), MAX(created_at) FROM config_snapshots
snapshot_summary(rows, device_id) ==
    LET mine == { i \in DOMAIN rows : rows[i].device_id = device_id }
    IN  [ snapshot_count |-> Cardinality(mine),
          last_snapshot_at |->
              IF mine = {} THEN None
              ELSE Some(rows[CHOOSE i \in mine :
                          \A j \in mine : rows[j].created_at <= rows[i].created_at
                        ].created_at) ]

\* LIMIT 20 of the snapshot listing
SNAPSHOT_LIMIT == 20

\* The row of `mine` that ORDER BY created_at DESC puts first; among rows of
\* equal created_at the one inserted last if later_first, else the one
\* inserted first.
newest(rows, mine, later_first) ==
    CHOOSE i \in mine : \A j \in mine :
        \/ rows[j].created_at < rows[i].created_at
        \/ /\ rows[j].created_at = rows[i].created_at
           /\ IF later_first THEN j <= i ELSE j >= i

\* The first k rows of `mine` in that order.
RECURSIVE ordered(_, _, _, _)
ordered(rows, mine, k, later_first) ==
    IF k = 0 \/ mine = {} THEN << >>
    ELSE LET i == newest(rows, mine, later_first)
         IN  << i >> \o ordered(rows, mine \ { i }, k - 1, later_first)

\* (A faulty variant of snapshot_listings: ORDER BY created_at without DESC.)
snapshot_listings_ascending(rows, device_id) ==
    LET mine == { i \in DOMAIN rows : rows[i].device_id = device_id }
        all == ordered(rows, mine, Cardinality(mine), TRUE)
        k == Min(SNAPSHOT_LIMIT, Cardinality(mine))
    IN  { [ i \in 1..k |-> [ id |-> rows[all[Len(all) + 1 - i]].id,
                             created_at |-> rows[all[Len(all) + 1 - i]].created_at,
                             snapshot |-> rows[all[Len(all) + 1 - i]].snapshot ] ] }

\* get_device_detail: SELECT id, created_at, snapshot ... ORDER BY created_at
\* DESC LIMIT 20.  The statement leaves the order of rows of equal
\* created_at open; the listings followed are the two that take such rows
\* in the order of their insertion and in the reverse of it.
snapshot_listings(rows, device_id) ==
    LET mine == { i \in DOMAIN rows : rows[i].device_id = device_id }
    IN  { [ i \in DOMAIN f |-> [ id |-> rows[f[i]].id,
                                 created_at |-> rows[f[i]].created_at,
                                 snapshot |-> rows[f[i]].snapshot ] ] :
          f \in { ordered(rows, mine, SNAPSHOT_LIMIT, later_first) :
                    later_first \in BOOLEAN } }

(***************************************************************************)
(* Requests                                                                *)
(*                                                                         *)
(* A slot holds a request between its statements.  The step that ends a    *)
(* handler frees the slot and leaves the response in `response`; any       *)
(* other step leaves NoResponse there.                                     *)
(***************************************************************************)
Idle == [ kind |-> "idle", pc |-> "idle" ]
NoResponse == [ kind |-> "none", status |-> 0 ]
\* ApiError::new(status, message): { "ok": false, "error": message }
ApiError(status) == [ kind |-> "error", status |-> status ]
\* The ApiError a handler returns before its first statement, with the
\* endpoint and the Authorization header of the request it answers.
Refused(status, endpoint, header) ==
    [ kind |-> "error", status |-> status, endpoint |-> endpoint, h_header |-> header ]

\* A new request takes the first free slot.
FreeSlot(s) == reqs[s].kind = "idle" /\ \A t \in Slots : t < s => reqs[t].kind # "idle"

\* Sync requests that have not yet inserted their snapshot.
SyncsPending ==
    Cardinality({ s \in Slots : reqs[s].kind = "sync"
                                 /\ reqs[s].pc \in { "upsert", "insert" } })

\* Admin-config writes to device_id that the requests in flight may still make.
WritesPending(device_id) ==
    Cardinality({ s \in Slots : /\ reqs[s].kind = "push"
                                 /\ reqs[s].device_id = device_id })
    + Cardinality({ s \in Slots : /\ reqs[s].kind = "batch"
                                   /\ \/ /\ reqs[s].pc = "select"
                                         /\ device_id \in Range(reqs[s].device_ids)
                                      \/ /\ reqs[s].pc = "loop"
                                         /\ device_id \in reqs[s].todo })

\* Version of the admin config stored for device_id, 0 when there is none.
StoredVersion(device_id) ==
    LET row == admin_row(admin_configs, device_id)
    IN  IF IsNone(row) THEN 0 ELSE Unwrap(row).version

\* The tables after the migrations, no request being handled.
InitStore(basic, now) ==
    /\ devices = {}
    /\ config_snapshots = << >>
    /\ admin_configs = {}
    /\ admin_basic = basic
    /\ clock = now
    /\ reqs = [ s \in Slots |-> Idle ]
    /\ response = NoResponse

\* Nothing has happened yet; track and syncs say which histories are kept.
InitHistory(track, syncs) ==
    /\ h_ret = [ d \in DeviceIds |-> << >> ]
    /\ h_last = [ d \in DeviceIds |-> None ]
    /\ h_sync = [ d \in DeviceIds |-> None ]
    /\ h_done = [ d \in DeviceIds |-> 0 ]
    /\ h_track = track
    /\ h_syncs = syncs

\* A build that keeps the order of the members.
InitServer(basic, track, now) ==
    InitStore(basic, now) /\ InitHistory(track, None) /\ json_order = "kept"

\* Time passes.
Tick ==
    /\ clock < MaxTime
    /\ clock' = clock + 1
    /\ response' = NoResponse
    /\ UNCHANGED << devices, config_snapshots, admin_configs, admin_basic, json_order, reqs >>
    /\ UNCHANGED histVars
    /\ UNCHANGED clientVars

(***************************************************************************)
(* sync_device: POST /devices/sync                                         *)
(***************************************************************************)
\* authorize_bearer, the device_id check, Utc::now(), extract_ip, lookup_geo
\* (limit: the snapshots the log is followed up to)
Arrive(s, header, device_id, input, limit) ==
    /\ FreeSlot(s)
    /\ IF ~authorize_bearer(header, sync_token)
       THEN /\ response' = Refused(401, "sync", header)
            /\ reqs' = reqs
       ELSE IF IsBlank(device_id)
       THEN /\ response' = Refused(400, "sync", header)
            /\ reqs' = reqs
       ELSE /\ Len(config_snapshots) + SyncsPending < limit
            /\ response' = NoResponse
            /\ reqs' = [ reqs EXCEPT ![s] =
                  [ kind |-> "sync", h_header |-> header, pc |-> "upsert",
                    payload |-> [ device_id |-> device_id,
                                  app_version |-> input.app_version,
                                  applied_admin_version |-> input.applied_admin_version,
                                  snapshot |-> input.snapshot ],
                    now |-> clock,
                    ip |-> Some(input.ip),
                    geo |-> lookup_geo(input.ip),
                    h_floor |-> IF h_track THEN h_done[device_id] ELSE 0 ] ]

\* A sync request arrives from a client that is not followed.
StartSync(s, header, device_id, input, limit) ==
    /\ Arrive(s, header, device_id, input, limit)
    /\ UNCHANGED << devices, config_snapshots, admin_configs, admin_basic, json_order, clock >>
    /\ UNCHANGED histVars
    /\ UNCHANGED clientVars

\* upsert_device(&state.pool, &payload, now, ip, geo)
SyncUpsert(s) ==
    LET r == reqs[s] IN
    /\ r.kind = "sync" /\ r.pc = "upsert"
    /\ devices' = upsert_device(devices, r.payload, r.now, r.ip, r.geo)
    /\ reqs' = [ reqs EXCEPT ![s].pc = "insert" ]
    /\ response' = NoResponse
    /\ h_sync' = [ h_sync EXCEPT ![r.payload.device_id] =
          Some([ first |-> IF IsSome(@) THEN Unwrap(@).first ELSE r.now,
                 now |-> r.now, ip |-> r.ip, geo |-> r.geo,
                 app_version |-> r.payload.app_version ]) ]
    /\ UNCHANGED << config_snapshots, admin_configs, admin_basic, json_order, clock >>
    /\ UNCHANGED << h_ret, h_last, h_done, h_track, h_syncs >>
    /\ UNCHANGED clientVars

\* insert_snapshot(&state.pool, &payload.device_id, &payload.snapshot, now)
SyncInsert(s) ==
    LET r == reqs[s] IN
    /\ r.kind = "sync" /\ r.pc = "insert"
    /\ config_snapshots' =
          insert_snapshot(config_snapshots, r.payload.device_id,
                          stored_body(r.payload.snapshot, json_order), r.now)
    /\ reqs' = [ reqs EXCEPT ![s].pc = "fetch" ]
    /\ response' = NoResponse
    /\ UNCHANGED << devices, admin_configs, admin_basic, json_order, clock >>
    /\ UNCHANGED histVars
    /\ UNCHANGED clientVars

\* fetch_admin_config and Ok(Json(SyncResponse { ok, admin_config, admin_version }))
Fetches(s) ==
    LET r == reqs[s]
        admin == fetch_admin_config(admin_configs, r.payload.device_id)
    IN
    /\ r.kind = "sync" /\ r.pc = "fetch"
    /\ reqs' = [ reqs EXCEPT ![s] = Idle ]
    /\ response' =
          [ kind |-> "sync", status |-> 200,
            device_id |-> r.payload.device_id,
            ok |-> TRUE,
            admin_config |-> IF IsSome(admin) THEN Some(Unwrap(admin).config) ELSE None,
            admin_version |-> IF IsSome(admin) THEN Some(Unwrap(admin).version) ELSE None,
            h_floor |-> r.h_floor ]
    /\ h_done' = [ h_done EXCEPT ![r.payload.device_id] =
          IF h_track /\ IsSome(admin) THEN Max(@, Unwrap(admin).version) ELSE @ ]
    /\ UNCHANGED << devices, config_snapshots, admin_configs, admin_basic, json_order, clock >>
    /\ h_syncs' = IF IsNone(h_syncs) THEN None
                  ELSE Some([ Unwrap(h_syncs) EXCEPT ![r.payload.device_id].ok = @ + 1 ])
    /\ UNCHANGED << h_ret, h_last, h_sync, h_track >>

\* The sync handler answers a client that is not followed.
SyncFetch(s) ==
    /\ Fetches(s)
    /\ UNCHANGED clientVars

(***************************************************************************)
(* upsert_admin_config: POST /admin/devices/{id}/config                    *)
(***************************************************************************)
\* What one upsert_admin_config_value statement leaves in the history.
RecordWrite(device_id, config, now, version) ==
    /\ h_ret' = [ h_ret EXCEPT ![device_id] = Append(@, version) ]
    /\ h_last' = [ h_last EXCEPT ![device_id] = Some([ config |-> config, now |-> now ]) ]

\* authorize_admin, the device_id check, Utc::now()
StartPush(s, header, device_id, config) ==
    /\ FreeSlot(s)
    /\ IF ~authorize_admin(header, admin_basic)
       THEN /\ response' = Refused(401, "push", header)
            /\ reqs' = reqs
       ELSE IF IsBlank(device_id)
       THEN /\ response' = Refused(400, "push", header)
            /\ reqs' = reqs
       ELSE /\ Len(h_ret[device_id]) + WritesPending(device_id) < MaxWrites
            /\ response' = NoResponse
            /\ reqs' = [ reqs EXCEPT ![s] =
                  [ kind |-> "push", h_header |-> header, pc |-> "write",
                    device_id |-> device_id, config |-> config, now |-> clock ] ]
    /\ UNCHANGED << devices, config_snapshots, admin_configs, admin_basic, json_order, clock >>
    /\ UNCHANGED histVars
    /\ UNCHANGED clientVars

\* upsert_admin_config_value and Ok(Json(AdminConfigResponse { ok, version }))
PushWrite(s) ==
    LET r == reqs[s]
        res == upsert_admin_config_value(admin_configs, r.device_id, r.config, r.now)
    IN
    /\ r.kind = "push" /\ r.pc = "write"
    /\ admin_configs' = res.rows
    /\ reqs' = [ reqs EXCEPT ![s] = Idle ]
    /\ response' =
          [ kind |-> "push", status |-> 200,
            device_id |-> r.device_id, ok |-> TRUE, version |-> res.version ]
    /\ RecordWrite(r.device_id, r.config, r.now, res.version)
    /\ h_done' = [ h_done EXCEPT ![r.device_id] =
          IF h_track THEN Max(@, res.version) ELSE @ ]
    /\ UNCHANGED << devices, config_snapshots, admin_basic, json_order, clock >>
    /\ UNCHANGED << h_sync, h_track, h_syncs >>
    /\ UNCHANGED clientVars

(***************************************************************************)
(* batch_admin_config: POST /admin/devices/config/batch                    *)
(***************************************************************************)
BatchLists == { << >>, << "d1" >>, << "d1", "d2" >>, << "d2", "d2" >> }

\* authorize_admin and the device_ids check
StartBatch(s, header, device_ids, config) ==
    /\ FreeSlot(s)
    /\ IF ~authorize_admin(header, admin_basic)
       THEN /\ response' = Refused(401, "batch", header)
            /\ reqs' = reqs
       ELSE IF device_ids = << >>
       THEN /\ response' = Refused(400, "batch", header)
            /\ reqs' = reqs
       ELSE /\ \A d \in Range(device_ids) :
                  Len(h_ret[d]) + WritesPending(d) < MaxWrites
            /\ response' = NoResponse
            /\ reqs' = [ reqs EXCEPT ![s] =
                  [ kind |-> "batch", h_header |-> header, pc |-> "select",
                    device_ids |-> device_ids, config |-> config ] ]
    /\ UNCHANGED << devices, config_snapshots, admin_configs, admin_basic, json_order, clock >>
    /\ UNCHANGED histVars
    /\ UNCHANGED clientVars

\* Ok(Json(BatchConfigResponse { ok: true, updated }))
BatchResponse(r, updated, wrote) ==
    [ kind |-> "batch", status |-> 200,
      device_ids |-> r.device_ids, ok |-> TRUE, updated |-> updated,
      h_registered |-> r.h_registered, h_wrote |-> wrote ]

\* The versions a finished batch wrote count as reported for their devices.
BatchReported(wrote) ==
    [ d \in DeviceIds |->
        LET vs == { w.version : w \in { x \in Range(wrote) : x.device_id = d } }
        IN  IF vs = {} \/ ~h_track THEN h_done[d]
            ELSE Max(h_done[d], CHOOSE v \in vs : \A u \in vs : u <= v) ]

\* SELECT device_id FROM devices WHERE device_id = ANY($1); Utc::now();
\* updated = 0.  With no existing id the loop body never runs.
BatchSelect(s) ==
    LET r == reqs[s]
        existing_ids == select_existing_ids(devices, r.device_ids)
        started == [ kind |-> "batch", pc |-> "loop",
                     device_ids |-> r.device_ids, config |-> r.config,
                     now |-> clock, todo |-> existing_ids, updated |-> 0,
                     h_registered |-> { x.device_id : x \in devices },
                     h_wrote |-> << >> ]
    IN
    /\ r.kind = "batch" /\ r.pc = "select"
    /\ IF existing_ids = {}
       THEN /\ reqs' = [ reqs EXCEPT ![s] = Idle ]
            /\ response' = BatchResponse(started, 0, << >>)
       ELSE /\ reqs' = [ reqs EXCEPT ![s] = started ]
            /\ response' = NoResponse
    /\ UNCHANGED << devices, config_snapshots, admin_configs, admin_basic, json_order, clock >>
    /\ UNCHANGED histVars
    /\ UNCHANGED clientVars

\* One round of "for device_id in existing_ids": upsert_admin_config_value,
\* updated += 1; after the last round, the response.  The SELECT has no
\* ORDER BY: its rows come in any order.
BatchWrite(s) ==
    LET r == reqs[s] IN
    /\ r.kind = "batch" /\ r.pc = "loop"
    /\ \E device_id \in r.todo :
        LET res == upsert_admin_config_value(admin_configs, device_id, r.config, r.now)
            wrote == Append(r.h_wrote, [ device_id |-> device_id, version |-> res.version ])
            last == r.todo = { device_id }
        IN
        /\ admin_configs' = res.rows
        /\ IF last
           THEN /\ reqs' = [ reqs EXCEPT ![s] = Idle ]
                /\ response' = BatchResponse(r, r.updated + 1, wrote)
                /\ h_done' = BatchReported(wrote)
           ELSE /\ reqs' = [ reqs EXCEPT ![s] =
                       [ r EXCEPT !.todo = @ \ { device_id },
                                  !.updated = @ + 1,
                                  !.h_wrote = wrote ] ]
                /\ response' = NoResponse
                /\ h_done' = h_done
        /\ RecordWrite(device_id, r.config, r.now, res.version)
    /\ UNCHANGED << devices, config_snapshots, admin_basic, json_order, clock >>
    /\ UNCHANGED << h_sync, h_track, h_syncs >>
    /\ UNCHANGED clientVars

(***************************************************************************)
(* get_device_detail: GET /admin/devices/{id}                              *)
(***************************************************************************)
StartDetail(s, header, device_id) ==
    /\ FreeSlot(s)
    /\ IF ~authorize_admin(header, admin_basic)
       THEN /\ response' = Refused(401, "detail", header)
            /\ reqs' = reqs
       ELSE /\ response' = NoResponse
            /\ reqs' = [ reqs EXCEPT ![s] =
                  [ kind |-> "detail", h_header |-> header, pc |-> "q_device", device_id |-> device_id ] ]
    /\ UNCHANGED << devices, config_snapshots, admin_configs, admin_basic, json_order, clock >>
    /\ UNCHANGED histVars
    /\ UNCHANGED clientVars

\* SELECT ... FROM devices WHERE device_id = $1; no row: 404
DetailDevice(s) ==
    LET r == reqs[s]
        row == device_row(devices, r.device_id)
    IN
    /\ r.kind = "detail" /\ r.pc = "q_device"
    /\ IF IsNone(row)
       THEN /\ reqs' = [ reqs EXCEPT ![s] = Idle ]
            /\ response' = ApiError(404)
       ELSE /\ reqs' = [ reqs EXCEPT ![s] =
                  [ kind |-> "detail", pc |-> "q_summary",
                    device_id |-> r.device_id, row |-> Unwrap(row) ] ]
            /\ response' = NoResponse
    /\ UNCHANGED << devices, config_snapshots, admin_configs, admin_basic, json_order, clock >>
    /\ UNCHANGED histVars
    /\ UNCHANGED clientVars

\* SELECT COUNT(id), MAX(created_at) FROM config_snapshots WHERE device_id = $1
DetailSummary(s) ==
    LET r == reqs[s] IN
    /\ r.kind = "detail" /\ r.pc = "q_summary"
    /\ reqs' = [ reqs EXCEPT ![s] =
          [ kind |-> "detail", pc |-> "q_snapshots",
            device_id |-> r.device_id, row |-> r.row,
            summary |-> snapshot_summary(config_snapshots, r.device_id) ] ]
    /\ response' = NoResponse
    /\ UNCHANGED << devices, config_snapshots, admin_configs, admin_basic, json_order, clock >>
    /\ UNCHANGED histVars
    /\ UNCHANGED clientVars

\* SELECT id, created_at, snapshot ... ORDER BY created_at DESC LIMIT 20
DetailSnapshots(s) ==
    LET r == reqs[s] IN
    /\ r.kind = "detail" /\ r.pc = "q_snapshots"
    /\ \E listing \in snapshot_listings(config_snapshots, r.device_id) :
          reqs' = [ reqs EXCEPT ![s] =
              [ kind |-> "detail", pc |-> "q_admin",
                device_id |-> r.device_id, row |-> r.row,
                summary |-> r.summary, snapshots |-> listing ] ]
    /\ response' = NoResponse
    /\ UNCHANGED << devices, config_snapshots, admin_configs, admin_basic, json_order, clock >>
    /\ UNCHANGED histVars
    /\ UNCHANGED clientVars

\* SELECT version, config, updated_at FROM admin_configs WHERE device_id = $1
\* and Ok(Json(DeviceDetailResponse { device, snapshots, admin_config }))
DetailAdmin(s) ==
    LET r == reqs[s]
        row == admin_row(admin_configs, r.device_id)
        admin_config == IF IsNone(row) THEN None
                        ELSE Some([ version |-> Unwrap(row).version,
                                    updated_at |-> Unwrap(row).updated_at,
                                    config |-> Unwrap(row).config ])
    IN
    /\ r.kind = "detail" /\ r.pc = "q_admin"
    /\ reqs' = [ reqs EXCEPT ![s] = Idle ]
    /\ response' =
          [ kind |-> "detail", status |-> 200,
            device_id |-> r.device_id,
            device |-> [ row |-> r.row,
                         snapshot_count |-> r.summary.snapshot_count,
                         last_snapshot_at |-> r.summary.last_snapshot_at,
                         admin_version |->
                            IF IsSome(admin_config) THEN Some(Unwrap(admin_config).version)
                            ELSE None,
                         admin_updated_at |->
                            IF IsSome(admin_config) THEN Some(Unwrap(admin_config).updated_at)
                            ELSE None ],
            snapshots |-> r.snapshots,
            admin_config |-> admin_config ]
    /\ UNCHANGED << devices, config_snapshots, admin_configs, admin_basic, json_order, clock >>
    /\ UNCHANGED histVars
    /\ UNCHANGED clientVars

(***************************************************************************)
(* list_devices: GET /admin/devices                                        *)
(***************************************************************************)
\* SELECT d.*, COUNT(s.id), MAX(s.created_at), a.version, a.updated_at FROM
\* devices d LEFT JOIN ... GROUP BY ... ORDER BY d.last_seen DESC: the
\* listings the statement may give (rows of equal last_seen in any order).
device_listings(rows, snapshots, admins) ==
    LET summary(r) ==
            LET admin == admin_row(admins, r.device_id)
                counted == snapshot_summary(snapshots, r.device_id)
            IN  [ row |-> r,
                  snapshot_count |-> counted.snapshot_count,
                  last_snapshot_at |-> counted.last_snapshot_at,
                  admin_version |-> IF IsSome(admin) THEN Some(Unwrap(admin).version)
                                    ELSE None,
                  admin_updated_at |-> IF IsSome(admin) THEN Some(Unwrap(admin).updated_at)
                                       ELSE None ]
        n == Cardinality(rows)
    IN  { [ i \in 1..n |-> summary(f[i]) ] :
          f \in { g \in [ 1..n -> rows ] :
                    \A i, j \in 1..n : i < j =>
                        g[i] # g[j] /\ g[i].last_seen >= g[j].last_seen } }

\* authorize_admin, the statement, and Ok(Json(DeviceListResponse { devices }))
ListDevices(header) ==
    /\ IF ~authorize_admin(header, admin_basic)
       THEN response' = Refused(401, "list", header)
       ELSE \E listing \in device_listings(devices, config_snapshots, admin_configs) :
               response' = [ kind |-> "list", status |-> 200,
                             devices |-> listing, h_header |-> header ]
    /\ UNCHANGED << devices, config_snapshots, admin_configs, admin_basic, json_order, clock, reqs >>
    /\ UNCHANGED histVars
    /\ UNCHANGED clientVars

(***************************************************************************)
(* Any statement may fail:                                                 *)
(*   .map_err(|err| ApiError::new(INTERNAL_SERVER_ERROR, err.to_string()))? *)
(***************************************************************************)
\* (A faulty variant of after_error: the rows a batch has written are gone
\* when a later write of it fails.)
after_error_rolled_back(rows, request) ==
    IF request.kind = "batch" /\ request.pc = "loop"
    THEN { row \in rows :
             \A i \in DOMAIN request.h_wrote : request.h_wrote[i].device_id # row.device_id }
    ELSE rows

\* The admin configs after a statement of a request has failed: no handler
\* opens a transaction, what its earlier statements wrote stays.
after_error(rows, request) == rows

\* The ApiError of a failed statement; of a batch it is kept how far it was.
Failed(request) ==
    [ kind |-> "error", status |-> 500,
      h_request |-> IF request.kind = "batch" THEN request ELSE Idle ]

\* A statement of the request in slot s fails and the handler returns the
\* ApiError.
Errors(s) ==
    /\ reqs[s].kind # "idle"
    /\ reqs' = [ reqs EXCEPT ![s] = Idle ]
    /\ response' = Failed(reqs[s])
    /\ admin_configs' = after_error(admin_configs, reqs[s])
    /\ h_syncs' = IF IsSome(h_syncs) /\ reqs[s].kind = "sync" /\ reqs[s].pc = "fetch"
                  THEN Some([ Unwrap(h_syncs) EXCEPT ![reqs[s].payload.device_id].lost = @ + 1 ])
                  ELSE h_syncs
    /\ UNCHANGED << devices, config_snapshots, admin_basic, json_order, clock >>
    /\ UNCHANGED << h_ret, h_last, h_sync, h_done, h_track >>

\* A statement of the request in slot s fails: the handler returns the
\* ApiError, to a client that is not followed.
StorageError(s) ==
    /\ Errors(s)
    /\ UNCHANGED clientVars

\* The steps of each kind of request; the headers, device ids and bodies of
\* the requests that arrive are drawn from the given sets.
SyncRequestUpTo(s, headers, ids, inputs, limit) ==
    \/ \E header \in headers, device_id \in ids, input \in inputs :
          StartSync(s, header, device_id, input, limit)
    \/ SyncUpsert(s)
    \/ SyncInsert(s)
    \/ SyncFetch(s)

SyncRequest(s, headers, ids, inputs) == SyncRequestUpTo(s, headers, ids, inputs, MaxSnapshots)

PushRequest(s, headers, ids) ==
    \/ \E header \in headers, device_id \in ids, config \in ConfigBodies :
          StartPush(s, header, device_id, config)
    \/ PushWrite(s)

BatchRequest(s, headers) ==
    \/ \E header \in headers, device_ids \in BatchLists, config \in ConfigBodies :
          StartBatch(s, header, device_ids, config)
    \/ BatchSelect(s)
    \/ BatchWrite(s)

DetailRequest(s, headers, ids) ==
    \/ \E header \in headers, device_id \in ids : StartDetail(s, header, device_id)
    \/ DetailDevice(s)
    \/ DetailSummary(s)
    \/ DetailSnapshots(s)
    \/ DetailAdmin(s)

(***************************************************************************)
(* management_sync.rs: the client                                          *)
(*                                                                         *)
(* start() spawns two tasks that call run_once: one after the startup      *)
(* delay (if SYNC_ON_START), one in the recurring loop.  A task takes one  *)
(* step per call to the settings store, the provider store or the          *)
(* network; the tasks run on a multi-threaded runtime and interleave       *)
(* between these calls.                                                    *)
(***************************************************************************)
SETTINGS_DEVICE_ID == "management_device_id"
SETTINGS_APPLIED_ADMIN_VERSION == "management_admin_version"
SETTINGS_LAST_SYNC_AT == "management_last_sync_at"
SettingsKeys ==
    { SETTINGS_DEVICE_ID, SETTINGS_APPLIED_ADMIN_VERSION, SETTINGS_LAST_SYNC_AT }

\* The tasks start() spawns.
TaskIds == { "startup", "recurring" }

\* Text is a sequence of characters.
Digits == << "0", "1", "2", "3", "4", "5", "6", "7", "8", "9" >>
IsDigit(c) == \E i \in DOMAIN Digits : Digits[i] = c
DigitValue(c) == (CHOOSE i \in DOMAIN Digits : Digits[i] = c) - 1

\* i64::to_string: decimal digits, "-" in front of a negative number.
RECURSIVE NatToString(_)
NatToString(n) ==
    IF n < 10 THEN << Digits[n + 1] >>
    ELSE Append(NatToString(n \div 10), Digits[(n % 10) + 1])
i64_to_string(v) == IF v < 0 THEN << "-" >> \o NatToString(0 - v) ELSE NatToString(v)

\* str::parse::<i64>().ok(): an optional sign and at least one digit, nothing else.
RECURSIVE DigitsToNat(_)
DigitsToNat(text) ==
    IF text = << >> THEN 0
    ELSE 10 * DigitsToNat(SubSeq(text, 1, Len(text) - 1)) + DigitValue(text[Len(text)])
parse_i64(text) ==
    LET signed == text # << >> /\ text[1] \in { "-", "+" }
        body == IF signed THEN Tail(text) ELSE text
    IN  IF body = << >> \/ \E i \in DOMAIN body : ~IsDigit(body[i]) THEN None
        ELSE IF signed /\ text[1] = "-" THEN Some(0 - DigitsToNat(body))
        ELSE Some(DigitsToNat(body))

\* DateTime::to_rfc3339: a text that names the instant.
to_rfc3339(at) == << "T" >> \o NatToString(at)

\* get_machine_uid() of this machine, and the hex SHA-256 digest of a text.
machine_uid == "machine-1"
Sha256Hex(raw) == << "sha256", raw >>

\* get_applied_admin_version: the setting parsed as i64, kept if positive.
get_applied_admin_version(value) ==
    LET parsed == IF IsSome(value) THEN parse_i64(Unwrap(value)) ELSE None
    IN  IF IsSome(parsed) /\ Unwrap(parsed) > 0 THEN parsed ELSE None

\* set_applied_admin_version: db.set_setting(key, &version.to_string())
set_applied_admin_version(db, version) ==
    [ db EXCEPT ![SETTINGS_APPLIED_ADMIN_VERSION] = Some(i64_to_string(version)) ]

\* set_last_sync_at: db.set_setting(key, &at.to_rfc3339())
set_last_sync_at(db, at) ==
    [ db EXCEPT ![SETTINGS_LAST_SYNC_AT] = Some(to_rfc3339(at)) ]

\* The provider store (contract: list, add, deleteAll, switchActive).
\* IndexMap::contains_key
contains_key(entries, id) == \E i \in DOMAIN entries : entries[i].id = id
\* Database::get_all_providers(app_type)
get_all_providers(store, app_type) == store[app_type]
\* (A faulty variant of delete_providers_by_app_type: nothing is deleted.)
delete_nothing(store, app_type) == store
\* Database::delete_providers_by_app_type(app_type)
delete_providers_by_app_type(store, app_type) == [ store EXCEPT ![app_type] = << >> ]
\* ProviderService::add(state, app_type, provider): the provider is stored
\* under its id, in place of one of the same id if there is one.
add(store, app_type, provider) ==
    [ store EXCEPT ![app_type] =
        IF contains_key(@, provider.id)
        THEN [ i \in DOMAIN @ |-> IF @[i].id = provider.id THEN provider ELSE @[i] ]
        ELSE Append(@, provider) ]
\* ProviderService::switch(state, app_type, id)
switch(active, app_type, id) == [ active EXCEPT ![app_type] = id ]

\* (A faulty variant of NextApp: the last of them.)
NextAppLast(config, i) ==
    LET present == { j \in i..Len(AppTypes) : IsSome(config[AppTypes[j]]) }
    IN  IF present = {} THEN Len(AppTypes) + 1
        ELSE CHOOSE j \in present : \A k \in present : k <= j

\* The app types from the i-th on that a pushed document has a snapshot for:
\* the first of them, or Len(AppTypes) + 1 if there is none.
RECURSIVE NextApp(_, _)
NextApp(config, i) ==
    IF i > Len(AppTypes) THEN i
    ELSE IF IsSome(config[AppTypes[i]]) THEN i
    ELSE NextApp(config, i + 1)

\* apply_app_snapshot, the checks before the delete: the error they give, if any.
MissingCurrent(app_type) == [ error |-> "Admin config missing current provider", app_type |-> app_type ]
CurrentNotFound(app_type) == [ error |-> "Admin config current provider not found", app_type |-> app_type ]
\* (A faulty variant: no check at all.)
without_validation(app_type, snapshot) == None
validation_error(app_type, snapshot) ==
    IF IsNone(snapshot.current_id) THEN Some(MissingCurrent(app_type))
    ELSE IF ~contains_key(snapshot.providers, Unwrap(snapshot.current_id))
    THEN Some(CurrentNotFound(app_type))
    ELSE None

(***************************************************************************)
(* next_beijing_4am_delay.  An instant is a number of seconds since        *)
(* 1970-01-01T00:00:00Z.                                                   *)
(***************************************************************************)
SECONDS_PER_DAY == 24 * 3600
\* FixedOffset::east_opt(8 * 3600)
BEIJING_OFFSET == 8 * 3600

\* The calendar date (proleptic Gregorian) of a day number, day 0 being
\* 1970-01-01: what year(), month() and day() read.
civil_from_days(days) ==
    LET z == days + 719468
        era == z \div 146097
        doe == z - era * 146097
        yoe == (doe - doe \div 1460 + doe \div 36524 - doe \div 146096) \div 365
        doy == doe - (365 * yoe + yoe \div 4 - yoe \div 100)
        mp == (5 * doy + 2) \div 153
        month == IF mp < 10 THEN mp + 3 ELSE mp - 9
    IN  [ year |-> yoe + era * 400 + (IF month <= 2 THEN 1 ELSE 0),
          month |-> month,
          day |-> doy - (153 * mp + 2) \div 5 + 1 ]

\* The day number of a calendar date.
days_from_civil(year, month, day) ==
    LET y == IF month <= 2 THEN year - 1 ELSE year
        era == y \div 400
        yoe == y - era * 400
        doy == (153 * (IF month > 2 THEN month - 3 ELSE month + 9) + 2) \div 5 + day - 1
        doe == yoe * 365 + yoe \div 4 - yoe \div 100 + doy
    IN  era * 146097 + doe - 719468

\* tz.with_ymd_and_hms(year, month, day, hour, 0, 0): the instant of that
\* local time in the fixed offset.
with_ymd_and_hms(offset, year, month, day, hour) ==
    days_from_civil(year, month, day) * SECONDS_PER_DAY + hour * 3600 - offset

\* (A faulty variant of next_beijing_4am_delay: at 04:00 sharp it takes
\* today's 04:00.)
delay_with_at_or_before(utc_now) ==
    LET now == civil_from_days((utc_now + BEIJING_OFFSET) \div SECONDS_PER_DAY)
        today == with_ymd_and_hms(BEIJING_OFFSET, now.year, now.month, now.day, 4)
        next == IF utc_now <= today THEN today ELSE today + SECONDS_PER_DAY
    IN  IF next - utc_now < 0 THEN 0 ELSE next - utc_now

\* next_beijing_4am_delay, in seconds, at the instant utc_now: 04:00 of the
\* local date if the instant is before it, else 04:00 a day later;
\* to_std() of a negative difference is an error and gives 0.
next_beijing_4am_delay(utc_now) ==
    LET now == civil_from_days((utc_now + BEIJING_OFFSET) \div SECONDS_PER_DAY)
        today == with_ymd_and_hms(BEIJING_OFFSET, now.year, now.month, now.day, 4)
        next == IF utc_now < today THEN today ELSE today + SECONDS_PER_DAY
    IN  IF next - utc_now < 0 THEN 0 ELSE next - utc_now

\* (A faulty variant of IsBlankText: str::is_empty() of a text.)
IsEmptyText(text) == text = << >>

\* str::trim().is_empty() of a text
IsBlankText(text) == \A i \in DOMAIN text : text[i] = " "

\* Result<(), AppError>
Ok == [ ok |-> TRUE ]
Err(message) == [ ok |-> FALSE, error |-> message ]

\* A task that does not run run_once: disabled, sleeping, or (startup) done.
Rest(pc, data, result) ==
    [ pc |-> pc, device_id |-> << >>, applied |-> None,
      snapshot |-> DeviceConfigSnapshot(None, None, None), list |-> << >>,
      request |-> None, data |-> data, app |-> 0, k |-> 0, result |-> result ]

\* (A faulty variant of Finish: a run that returns an error ends its task.)
FinishOrStop(t, result) ==
    tasks' = [ tasks EXCEPT ![t] =
        Rest(IF t = "startup" \/ result # Ok THEN "done" ELSE "sleep", @.data, Some(result)) ]

\* The run of task t returns: the startup task is over, the loop sleeps again.
Finish(t, result) ==
    tasks' = [ tasks EXCEPT ![t] =
        Rest(IF t = "startup" THEN "done" ELSE "sleep", @.data, Some(result)) ]

\* The store writes a task has made in its run, in order.
Logged(t, entry) == h_log' = [ h_log EXCEPT ![t] = Append(@, entry) ]

\* After apply_admin_config returned Ok: set_applied_admin_version if the
\* response has a version, then set_last_sync_at.
AfterApply(data) == IF IsSome(data.admin_version) THEN "set_version" ELSE "set_last_sync"

\* (A faulty variant of after_response: the version is persisted whether or
\* not the response has a config.)
after_response_eager(data) ==
    IF IsNone(data.admin_config) THEN AfterApply(data)
    ELSE IF NextApp(Unwrap(data.admin_config), 1) > Len(AppTypes) THEN AfterApply(data)
    ELSE "apply_delete"

\* (A faulty variant of after_response: a config of the version that is
\* stored as applied is not applied again.)
after_response_unless_applied(data) ==
    IF IsNone(data.admin_config) THEN "set_last_sync"
    ELSE IF get_applied_admin_version(settings[SETTINGS_APPLIED_ADMIN_VERSION]) = data.admin_version
    THEN "set_last_sync"
    ELSE IF NextApp(Unwrap(data.admin_config), 1) > Len(AppTypes) THEN AfterApply(data)
    ELSE "apply_delete"

\* run_once after an ok response: "if let Some(config) = data.admin_config"
\* applies it, starting with the first app type it has a snapshot for;
\* without a config only set_last_sync_at remains.
after_response(data) ==
    IF IsNone(data.admin_config) THEN "set_last_sync"
    ELSE IF NextApp(Unwrap(data.admin_config), 1) > Len(AppTypes) THEN AfterApply(data)
    ELSE "apply_delete"

\* (A faulty variant of InitClient: the startup task is spawned in every build.)
InitClientBothTasks(b, db, store, active) ==
    /\ build = b
    /\ settings = db
    /\ providers = store
    /\ current = active
    /\ tasks = [ t \in TaskIds |-> Rest("sleep", None, None) ]
    /\ delay = None
    /\ h_log = [ t \in TaskIds |-> << >> ]
    /\ h_start = [ t \in TaskIds |-> None ]

InitClient(b, db, store, active) ==
    /\ build = b
    /\ settings = db
    /\ providers = store
    /\ current = active
    /\ tasks = [ t \in TaskIds |->
          IF t = "startup" /\ ~b.sync_on_start THEN Rest("off", None, None)
          ELSE Rest("sleep", None, None) ]
    /\ delay = None
    /\ h_log = [ t \in TaskIds |-> << >> ]
    /\ h_start = [ t \in TaskIds |-> None ]

\* What run_once leaves alone: the server, the history of the server, and
\* the delay of the recurring loop.
ServerUnchanged ==
    UNCHANGED << devices, config_snapshots, admin_configs, admin_basic, json_order, clock, reqs,
                 response, histVars, delay >>

\* run_once begins: the build-time url and token, then
\* get_or_create_device_id up to its set_setting.  uid is what
\* get_machine_uid gives, read is whether get_setting succeeds.
Begins(t, uid, read) ==
    LET existing == settings[SETTINGS_DEVICE_ID] IN
    /\ tasks[t].pc = "sleep"
    /\ h_log' = [ h_log EXCEPT ![t] = << >> ]
    /\ h_start' = [ h_start EXCEPT ![t] = settings[SETTINGS_APPLIED_ADMIN_VERSION] ]
    /\ IF IsBlank(build.url)
       THEN Finish(t, Err("Management base URL is empty at build time"))
       ELSE IF IsBlank(build.token)
       THEN Finish(t, Err("Management token is empty at build time"))
       ELSE IF ~read
       THEN Finish(t, Err("settings store"))
       ELSE IF IsSome(existing) /\ ~IsBlankText(Unwrap(existing))
       THEN tasks' = [ tasks EXCEPT ![t] =
               [ Rest("get_applied", None, None) EXCEPT !.device_id = Unwrap(existing) ] ]
       ELSE IF IsNone(uid)
       THEN Finish(t, Err("Failed to read hardware fingerprint"))
       ELSE tasks' = [ tasks EXCEPT ![t] =
               [ Rest("set_device_id", None, None) EXCEPT
                    !.device_id = Sha256Hex(Unwrap(uid)) ] ]

\* The sleep is over and run_once begins.
Begin(t, uid, read) ==
    /\ Begins(t, uid, read)
    /\ UNCHANGED << build, settings, providers, current >>
    /\ ServerUnchanged

\* get_or_create_device_id: db.set_setting(SETTINGS_DEVICE_ID, &hashed)
SetDeviceId(t) ==
    /\ tasks[t].pc = "set_device_id"
    /\ settings' = [ settings EXCEPT ![SETTINGS_DEVICE_ID] = Some(tasks[t].device_id) ]
    /\ tasks' = [ tasks EXCEPT ![t].pc = "get_applied" ]
    /\ Logged(t, << "set", SETTINGS_DEVICE_ID, tasks[t].device_id >>)
    /\ UNCHANGED << build, providers, current, h_start >>
    /\ ServerUnchanged

\* get_applied_admin_version(&state.db)
GetApplied(t) ==
    /\ tasks[t].pc = "get_applied"
    /\ tasks' = [ tasks EXCEPT
          ![t].applied = get_applied_admin_version(settings[SETTINGS_APPLIED_ADMIN_VERSION]),
          ![t].pc = "collect_list",
          ![t].app = 1 ]
    /\ UNCHANGED << build, settings, providers, current, h_log, h_start >>
    /\ ServerUnchanged

\* collect_snapshot goes on with the next app type, or is done.
Collected(r, app_snapshot) ==
    [ r EXCEPT !.snapshot = [ @ EXCEPT ![AppTypes[r.app]] = app_snapshot ],
               !.list = << >>,
               !.app = IF r.app < Len(AppTypes) THEN r.app + 1 ELSE 0,
               !.pc = IF r.app < Len(AppTypes) THEN "collect_list" ELSE "send" ]

\* collect_app_snapshot: state.db.get_all_providers(app_type); None if empty
CollectList(t) ==
    LET r == tasks[t]
        list == get_all_providers(providers, AppTypes[r.app])
    IN
    /\ r.pc = "collect_list"
    /\ tasks' = [ tasks EXCEPT ![t] =
          IF list = << >> THEN Collected(r, None)
          ELSE [ r EXCEPT !.list = list, !.pc = "collect_current" ] ]
    /\ UNCHANGED << build, settings, providers, current, h_log, h_start >>
    /\ ServerUnchanged

\* collect_app_snapshot: ProviderService::current(state, app_type); a blank
\* id becomes None
CollectCurrent(t) ==
    LET r == tasks[t]
        current_id == current[AppTypes[r.app]]
    IN
    /\ r.pc = "collect_current"
    /\ tasks' = [ tasks EXCEPT ![t] =
          Collected(r, Some(AppProviderSnapshot(
                              IF IsBlank(current_id) THEN None ELSE Some(current_id),
                              r.list))) ]
    /\ UNCHANGED << build, settings, providers, current, h_log, h_start >>
    /\ ServerUnchanged

\* The payload: SyncRequest { device_id, app_version, applied_admin_version,
\* snapshot, client_time }
Payload(r) ==
    [ device_id |-> r.device_id,
      app_version |-> build.app_version,
      applied_admin_version |-> r.applied,
      snapshot |-> r.snapshot,
      client_time |-> to_rfc3339(clock) ]

\* The payload is built and the POST is sent, to a server that is not followed.
Send(t) ==
    LET r == tasks[t] IN
    /\ r.pc = "send"
    /\ tasks' = [ tasks EXCEPT ![t] =
          [ r EXCEPT !.pc = "await", !.request = Some(Payload(r)) ] ]
    /\ UNCHANGED << build, settings, providers, current, h_log, h_start >>
    /\ ServerUnchanged

\* What comes back from the POST: no response, a response of some status,
\* and for a success status a body that parses as SyncResponse or not.
TransportFailure == [ kind |-> "transport" ]
Status(code) == [ kind |-> "status", status |-> code ]
Unparsable == [ kind |-> "parse" ]
Parsed(ok, admin_config, admin_version) ==
    [ kind |-> "data", ok |-> ok,
      admin_config |-> admin_config, admin_version |-> admin_version ]

\* (A faulty variant of receive_result: a request that failed or was refused
\* ends the run with Ok.)
receive_result_swallowing(outcome) ==
    IF outcome.kind \in { "transport", "status" } THEN Some(Ok)
    ELSE IF outcome.kind = "parse" THEN Some(Err("Sync response parse failed"))
    ELSE IF ~outcome.ok THEN Some(Ok)
    ELSE None

\* What run_once returns when the POST is answered, if it returns there:
\* the map_err of .send().await, "if !response.status().is_success()", the
\* map_err of response.json().await, and Ok(()) past "if data.ok"; None if
\* it goes on into "if data.ok".
receive_result(outcome) ==
    IF outcome.kind = "transport" THEN Some(Err("Sync request failed"))
    ELSE IF outcome.kind = "status" THEN Some(Err("Sync failed with status"))
    ELSE IF outcome.kind = "parse" THEN Some(Err("Sync response parse failed"))
    ELSE IF ~outcome.ok THEN Some(Ok)
    ELSE None

\* The POST is answered: run_once returns, or goes on with
\* "if let Some(config) = data.admin_config".  The task keeps what was
\* received.
Receives(t, outcome) ==
    LET r == tasks[t]
        returned == receive_result(outcome)
    IN
    /\ r.pc = "await"
    /\ IF IsSome(returned)
       THEN tasks' = [ tasks EXCEPT ![t] =
               Rest(IF t = "startup" THEN "done" ELSE "sleep", Some(outcome), returned) ]
       ELSE tasks' = [ tasks EXCEPT ![t] =
               [ r EXCEPT !.data = Some(outcome),
                          !.pc = after_response(outcome),
                          !.app = IF IsNone(outcome.admin_config) THEN 0
                                  ELSE NextApp(Unwrap(outcome.admin_config), 1) ] ]

\* The POST is answered by a server that is not followed.
Receive(t, outcome) ==
    /\ Receives(t, outcome)
    /\ UNCHANGED << build, settings, providers, current, h_log, h_start >>
    /\ ServerUnchanged

\* The per-app-type snapshot that task t is applying.
Applying(r) == Unwrap(Unwrap(Unwrap(r.data).admin_config)[AppTypes[r.app]])

\* apply_app_snapshot: the two checks, then delete_providers_by_app_type
ApplyDelete(t) ==
    LET r == tasks[t]
        app_type == AppTypes[r.app]
        invalid == validation_error(app_type, Applying(r))
    IN
    /\ r.pc = "apply_delete"
    /\ IF IsSome(invalid)
       THEN /\ Finish(t, Unwrap(invalid))
            /\ UNCHANGED << providers, h_log >>
       ELSE /\ providers' = delete_providers_by_app_type(providers, app_type)
            /\ tasks' = [ tasks EXCEPT ![t].pc = "apply_add", ![t].k = 1 ]
            /\ Logged(t, << "delete", app_type >>)
    /\ UNCHANGED << build, settings, current, h_start >>
    /\ ServerUnchanged

\* apply_app_snapshot: one round of "for provider in snapshot.providers.values()"
ApplyAdd(t) ==
    LET r == tasks[t]
        app_type == AppTypes[r.app]
        provider == Applying(r).providers[r.k]
    IN
    /\ r.pc = "apply_add"
    /\ providers' = add(providers, app_type, provider)
    /\ tasks' = [ tasks EXCEPT ![t] =
          IF r.k < Len(Applying(r).providers)
          THEN [ r EXCEPT !.k = r.k + 1 ]
          ELSE [ r EXCEPT !.k = 0, !.pc = "apply_switch" ] ]
    /\ Logged(t, << "add", app_type, provider.id >>)
    /\ UNCHANGED << build, settings, current, h_start >>
    /\ ServerUnchanged

\* apply_app_snapshot: ProviderService::switch(state, app_type, current_id);
\* then apply_admin_config goes on with the next app type of the document,
\* or returns Ok.
ApplySwitch(t) ==
    LET r == tasks[t]
        app_type == AppTypes[r.app]
        following == NextApp(Unwrap(Unwrap(r.data).admin_config), r.app + 1)
    IN
    /\ r.pc = "apply_switch"
    /\ current' = switch(current, app_type, Unwrap(Applying(r).current_id))
    /\ tasks' = [ tasks EXCEPT ![t] =
          [ r EXCEPT !.app = following,
                     !.pc = IF following > Len(AppTypes) THEN AfterApply(Unwrap(r.data))
                            ELSE "apply_delete" ] ]
    /\ Logged(t, << "switch", app_type, Unwrap(Applying(r).current_id) >>)
    /\ UNCHANGED << build, settings, providers, h_start >>
    /\ ServerUnchanged

\* set_applied_admin_version(&state.db, version)
SetVersion(t) ==
    LET r == tasks[t]
        version == Unwrap(Unwrap(r.data).admin_version)
    IN
    /\ r.pc = "set_version"
    /\ settings' = set_applied_admin_version(settings, version)
    /\ tasks' = [ tasks EXCEPT ![t].pc = "set_last_sync" ]
    /\ Logged(t, << "set", SETTINGS_APPLIED_ADMIN_VERSION, i64_to_string(version) >>)
    /\ UNCHANGED << build, providers, current, h_start >>
    /\ ServerUnchanged

\* set_last_sync_at(&state.db, Utc::now()) and Ok(())
SetLastSync(t) ==
    /\ tasks[t].pc = "set_last_sync"
    /\ settings' = set_last_sync_at(settings, clock)
    /\ Finish(t, Ok)
    /\ Logged(t, << "set", SETTINGS_LAST_SYNC_AT, to_rfc3339(clock) >>)
    /\ UNCHANGED << build, providers, current, h_start >>
    /\ ServerUnchanged

\* A call to the settings store or the provider store fails: the `?` of
\* run_once, collect_app_snapshot and apply_app_snapshot.
StoreCalls == { "set_device_id", "get_applied", "collect_list", "collect_current",
                "apply_add", "apply_switch", "set_version", "set_last_sync" }
StoreFailure(t) ==
    LET r == tasks[t] IN
    /\ \/ r.pc \in StoreCalls
       \/ /\ r.pc = "apply_delete"
          /\ IsNone(validation_error(AppTypes[r.app], Applying(r)))
    /\ Finish(t, Err("store"))
    /\ UNCHANGED << build, settings, providers, current, h_log, h_start >>
    /\ ServerUnchanged

\* The steps of task t; the POST is answered with one of the outcomes.
RunSteps(t, outcomes) ==
    \/ SetDeviceId(t)
    \/ GetApplied(t)
    \/ CollectList(t)
    \/ CollectCurrent(t)
    \/ Send(t)
    \/ \E outcome \in outcomes : Receive(t, outcome)
    \/ ApplyDelete(t)
    \/ ApplyAdd(t)
    \/ ApplySwitch(t)
    \/ SetVersion(t)
    \/ SetLastSync(t)
    \/ StoreFailure(t)

\* A run of task t, from the end of its sleep on.
RunOnce(t, outcomes) ==
    \/ \E uid \in { None, Some(machine_uid) }, read \in BOOLEAN : Begin(t, uid, read)
    \/ RunSteps(t, outcomes)

\* start(), the recurring loop: let delay = next_beijing_4am_delay()
Schedule ==
    /\ tasks["recurring"].pc = "sleep"
    /\ delay = None
    /\ delay' = Some(next_beijing_4am_delay(clock))
    /\ UNCHANGED << serverVars, histVars >>
    /\ UNCHANGED << build, settings, providers, current, tasks, h_log, h_start >>

\* The days the recurring loop is followed over.
FirstDay == days_from_civil(2023, 12, 31)
LastDay == days_from_civil(2024, 12, 31)

\* tokio::time::sleep(delay).await: the loop wakes when the delay is over.
Sleep ==
    /\ delay # None
    /\ clock + Unwrap(delay) <= (LastDay + MaxSleepDays) * SECONDS_PER_DAY
    /\ clock' = clock + Unwrap(delay)
    /\ delay' = None
    /\ response' = NoResponse
    /\ UNCHANGED << devices, config_snapshots, admin_configs, admin_basic, json_order, reqs, histVars >>
    /\ UNCHANGED << build, settings, providers, current, tasks, h_log, h_start >>

(***************************************************************************)
(* Spec: the admin-config store.  Syncs register devices, single and batch *)
(* pushes write admin configs, at most two requests at a time; any         *)
(* statement may fail.  No statement of these handlers reads the clock or  *)
(* what a sync reports besides its device id, so the clock stands still    *)
(* and every sync reports the same.                                        *)
(***************************************************************************)
SyncHeaders == { NoHeader, Bearer(sync_token) }
AdminHeaders == { NoHeader, Bearer(admin_token) }
AnyId == DeviceIds \cup BlankIds
PlainSync == { SyncInput(Some("1.0"), None, to_json(DocA), "ip1") }

\* The client as installed: nothing stored, its tasks asleep.
Build(url, token, sync_on_start) ==
    [ url |-> url, token |-> token, sync_on_start |-> sync_on_start,
      app_version |-> "3.8.0" ]
NoSettings == [ key \in SettingsKeys |-> None ]
NoProviders == [ app_type \in Range(AppTypes) |-> << >> ]
NoneActive == [ app_type \in Range(AppTypes) |-> "" ]
ClientAtRest == InitClient(Build("https://m", "sync-secret", TRUE),
                           NoSettings, NoProviders, NoneActive)

Init == InitServer(None, FALSE, 0) /\ ClientAtRest

Next ==
    \E s \in Slots :
        \/ SyncRequest(s, SyncHeaders, AnyId, PlainSync)
        \/ PushRequest(s, AdminHeaders, AnyId)
        \/ BatchRequest(s, AdminHeaders)
        \/ StorageError(s)

Spec == Init /\ [][Next]_vars

(***************************************************************************)
(* SpecDelivery: single pushes and syncs, with the history of what the     *)
(* finished requests reported.                                             *)
(***************************************************************************)
InitDelivery == InitServer(None, TRUE, 0) /\ ClientAtRest

NextDelivery ==
    \E s \in Slots :
        \/ SyncRequest(s, SyncHeaders, AnyId, PlainSync)
        \/ PushRequest(s, AdminHeaders, AnyId)
        \/ StorageError(s)

SpecDelivery == InitDelivery /\ [][NextDelivery]_vars

(***************************************************************************)
(* SpecRegistry: the device registry and the snapshot log.  Syncs of every *)
(* kind, at most two at a time, while time passes.                         *)
(***************************************************************************)
NextRegistry ==
    \/ Tick
    \/ \E s \in Slots :
        \/ SyncRequest(s, SyncHeaders, AnyId, SyncInputs)
        \/ StorageError(s)

SpecRegistry == Init /\ [][NextRegistry]_vars

(***************************************************************************)
(* SpecRead: reads of the admin config (the sync response and the device   *)
(* detail) among single pushes, while time passes.  One device id syncs   *)
(* and is pushed to; the detail of either id is asked for.                 *)
(***************************************************************************)
NextRead ==
    \/ Tick
    \/ \E s \in Slots :
        \/ SyncRequest(s, { Bearer(sync_token) }, { "d1" }, PlainSync)
        \/ PushRequest(s, { Bearer(admin_token) }, { "d1" })
        \/ DetailRequest(s, AdminHeaders, DeviceIds)

SpecRead == Init /\ [][NextRead]_vars

(***************************************************************************)
(* SpecClient: a client built without SYNC_ON_START: the recurring task is *)
(* the only one, its runs follow one another.  The server is whatever      *)
(* answers the POST.                                                       *)
(***************************************************************************)
\* Local state the client may start from.
LocalProviders ==
    { NoProviders,
      [ NoProviders EXCEPT !["claude"] = << Entry("l", "x"), Entry("a", "y") >>,
                           !["codex"] = << Entry("b", "x") >> ] }
ActiveOf(store) ==
    [ app_type \in Range(AppTypes) |->
        IF store[app_type] = << >> THEN "" ELSE store[app_type][1].id ]
LocalSettings ==
    { NoSettings,
      [ NoSettings EXCEPT ![SETTINGS_DEVICE_ID] = Some(<< " " >>),
                          ![SETTINGS_APPLIED_ADMIN_VERSION] = Some(<< "x" >>) ],
      [ NoSettings EXCEPT ![SETTINGS_DEVICE_ID] = Some(Sha256Hex(machine_uid)),
                          ![SETTINGS_APPLIED_ADMIN_VERSION] = Some(i64_to_string(1)) ] }
Builds(sync_on_start) ==
    { Build("https://m", "sync-secret", sync_on_start),
      Build("", "sync-secret", sync_on_start),
      Build("https://m", "", sync_on_start) }

\* Answers to the POST.
Outcomes ==
    { TransportFailure, Status(500), Unparsable,
      Parsed(FALSE, Some(DocA), Some(1)),
      Parsed(TRUE, None, None),
      Parsed(TRUE, None, Some(2)),
      Parsed(TRUE, Some(DocA), None),
      Parsed(TRUE, Some(DocA), Some(1)),
      Parsed(TRUE, Some(DocB), Some(2)),
      Parsed(TRUE, Some(DocBadKey), Some(2)),
      Parsed(TRUE, Some(DocNoCurrent), Some(3)) }

InitClientAlone ==
    /\ InitServer(None, FALSE, 0)
    /\ \E b \in Builds(FALSE), db \in LocalSettings, store \in LocalProviders :
          InitClient(b, db, store, ActiveOf(store))

NextClient ==
    \/ Tick
    \/ RunOnce("recurring", Outcomes)

SpecClient == InitClientAlone /\ [][NextClient]_vars

(***************************************************************************)
(* SpecDelay: the delays of the recurring loop.  The loop starts at some   *)
(* instant around a change of day, month or year, in UTC or in UTC+8, or   *)
(* around 04:00 in UTC+8, and then computes its delay and sleeps, again    *)
(* and again.                                                              *)
(***************************************************************************)
StartDays ==
    { FirstDay, days_from_civil(2024, 1, 1), days_from_civil(2024, 2, 28),
      days_from_civil(2024, 2, 29), days_from_civil(2024, 3, 1),
      days_from_civil(2024, 11, 30), LastDay }
\* Seconds into the UTC day: 16:00 is midnight and 20:00 is 04:00 in UTC+8.
StartSeconds ==
    { 0, 1, 16 * 3600 - 1, 16 * 3600, 16 * 3600 + 1,
      20 * 3600 - 1, 20 * 3600, 20 * 3600 + 1, SECONDS_PER_DAY - 1 }
Instants == { day * SECONDS_PER_DAY + second : day \in StartDays, second \in StartSeconds }

InitDelay ==
    /\ \E now \in Instants : InitServer(None, FALSE, now)
    /\ ClientAtRest

NextDelay == Schedule \/ Sleep

SpecDelay == InitDelay /\ [][NextDelay]_vars

(***************************************************************************)
(* Properties of the admin-config store                                    *)
(***************************************************************************)
\* The responses that report success.
IsOk(kind) == response.kind = kind /\ response.status = 200

\* The version the last successful write for device_id returned, 0 if none.
LastReturned(device_id) ==
    IF h_ret[device_id] = << >> THEN 0 ELSE h_ret[device_id][Len(h_ret[device_id])]

\* C1: for every device id the admin-config table holds no row before the
\* first successful write and exactly one row afterwards, and the version
\* stored in it is the number of successful writes made for that id so far,
\* single and batch pushes alike: 1 after the first write, one more after
\* every later one.
C1_VersionCountsWrites ==
    \A d \in DeviceIds :
        LET rows == { r \in admin_configs : r.device_id = d }
        IN  IF h_ret[d] = << >>
            THEN rows = {}
            ELSE /\ Cardinality(rows) = 1
                 /\ \A r \in rows : r.version = Len(h_ret[d])

\* C1 witness: a batch push has just made the second write for d1.
C1_Witness ==
    /\ IsOk("batch")
    /\ Len(h_ret["d1"]) = 2
    /\ StoredVersion("d1") = 2

\* C2: the versions the writes for one device id return are 1, 2, 3, ... in
\* the order the writes are made, also when the pushes that make them
\* overlap: no two writes return the same version and no number is left
\* out; a single push answers with the version its own write returned.
C2_ReturnedVersionsConsecutive ==
    \A d \in DeviceIds :
        /\ \A i \in DOMAIN h_ret[d] : h_ret[d][i] = i
        /\ (IsOk("push") /\ response.device_id = d) =>
               response.version = Len(h_ret[d])

\* C2 witness: one of two overlapping pushes for the same device id has
\* answered with its version while the other has yet to write.
C2_Witness ==
    /\ IsOk("push")
    /\ \E s \in Slots : /\ reqs[s].kind = "push"
                        /\ reqs[s].device_id = response.device_id
                        /\ Len(h_ret[response.device_id]) + 1 = MaxWrites

\* C5: a batch push that answers has written once, and only once, each
\* requested device id that was in the registry when it selected them, has
\* written no other id, and reports as `updated` the number of ids written.
C5_BatchWritesRegisteredOnly ==
    IsOk("batch") =>
        LET wrote == { w.device_id : w \in Range(response.h_wrote) }
        IN  /\ wrote = Range(response.device_ids) \cap response.h_registered
            /\ Len(response.h_wrote) = Cardinality(wrote)
            /\ response.updated = Cardinality(wrote)

\* C5 witness: a batch over [d1, d2] where one of them is unknown answers
\* updated = 1.
C5_Witness ==
    /\ IsOk("batch")
    /\ response.device_ids = << "d1", "d2" >>
    /\ Cardinality(response.h_registered) = 1
    /\ response.updated = 1

\* C9: a sync that answers returns the admin config as it is stored when it
\* fetches it, the body and version of the last write; that version is at
\* least every version a push or sync for the device had reported before
\* the sync started (none is counted as 0).
C9_SyncSeesCompletedPush ==
    IsOk("sync") =>
        LET d == response.device_id
            version == IF IsSome(response.admin_version)
                       THEN Unwrap(response.admin_version) ELSE 0
        IN  /\ version >= response.h_floor
            /\ version = LastReturned(d)
            /\ IF version = 0 THEN response.admin_config = None
               ELSE response.admin_config = Some(Unwrap(h_last[d]).config)

\* C9 witness: a sync that started after a push had answered with version 1
\* returns version 2, written by a push that overlapped it.
C9_Witness ==
    /\ IsOk("sync")
    /\ response.h_floor = 1
    /\ response.admin_version = Some(2)

\* C3: a read of the admin config of a device id finds nothing when no write
\* was made for the id, and otherwise the version, body and timestamp of the
\* last write: the sync response carries version and body, the device
\* detail all three.
C3_ReadReturnsLastWrite ==
    /\ IsOk("sync") =>
          IF h_ret[response.device_id] = << >>
          THEN response.admin_config = None /\ response.admin_version = None
          ELSE /\ response.admin_version = Some(LastReturned(response.device_id))
               /\ response.admin_config = Some(Unwrap(h_last[response.device_id]).config)
    /\ IsOk("detail") =>
          IF h_ret[response.device_id] = << >>
          THEN response.admin_config = None
          ELSE response.admin_config =
                  Some([ version |-> LastReturned(response.device_id),
                         updated_at |-> Unwrap(h_last[response.device_id]).now,
                         config |-> Unwrap(h_last[response.device_id]).config ])

\* C3 witness: the device detail shows the second write, made at time 1
\* over a first write made at time 0.
C3_Witness ==
    /\ IsOk("detail")
    /\ IsSome(response.admin_config)
    /\ Unwrap(response.admin_config).version = 2
    /\ Unwrap(response.admin_config).updated_at = 1

(***************************************************************************)
(* Properties of the device registry                                       *)
(***************************************************************************)
\* C4: the registry holds no row for a device id before its first sync has
\* upserted and exactly one row afterwards; last_seen, last_ip, the geo
\* fields and app_version of the row are those the latest upsert bound,
\* created_at is the timestamp of the first one.
C4_OneRowPerDevice ==
    \A d \in DeviceIds :
        LET rows == { r \in devices : r.device_id = d }
        IN  IF IsNone(h_sync[d])
            THEN rows = {}
            ELSE LET h == Unwrap(h_sync[d])
                 IN  /\ Cardinality(rows) = 1
                     /\ \A r \in rows :
                          /\ r.created_at = h.first
                          /\ r.last_seen = h.now
                          /\ r.last_ip = h.ip
                          /\ r.geo_country = (IF IsSome(h.geo) THEN Unwrap(h.geo).country ELSE None)
                          /\ r.geo_region = (IF IsSome(h.geo) THEN Unwrap(h.geo).region ELSE None)
                          /\ r.geo_city = (IF IsSome(h.geo) THEN Unwrap(h.geo).city ELSE None)
                          /\ r.app_version = h.app_version

\* C4 witness: a device that synced at time 0 and again, from another
\* address and without geo data, at time 1.
C4_Witness ==
    \E r \in devices :
        /\ r.created_at = 0
        /\ r.last_seen = 1
        /\ r.last_ip = Some("ip2")
        /\ r.geo_country = None
        /\ r.app_version = None

(***************************************************************************)
(* Properties of the client                                                *)
(***************************************************************************)
\* A per-app-type snapshot names a current provider that is one of its providers.
ValidSnapshot(snapshot) ==
    /\ snapshot.current_id # None
    /\ \E i \in DOMAIN snapshot.providers :
          snapshot.providers[i].id = snapshot.current_id[1]

\* The store writes that applying one per-app-type snapshot makes.
AppLog(app_type, snapshot) ==
    << << "delete", app_type >> >>
    \o [ i \in 1..Len(snapshot.providers) |-> << "add", app_type, snapshot.providers[i].id >> ]
    \o << << "switch", app_type, snapshot.current_id[1] >> >>

\* The store writes that applying a whole document makes.
ApplyLog(config) ==
    (IF config.claude = None THEN << >> ELSE AppLog("claude", config.claude[1]))
    \o (IF config.codex = None THEN << >> ELSE AppLog("codex", config.codex[1]))
    \o (IF config.gemini = None THEN << >> ELSE AppLog("gemini", config.gemini[1]))

\* The last n entries of a sequence.
LastN(s, n) == SubSeq(s, Len(s) - n + 1, Len(s))

\* C6: when a task is about to apply a per-app-type snapshot that has no
\* current provider, or one that is not among its providers, its next step
\* ends the run with the error of that check and leaves the providers and
\* the active provider of that app type as they are: nothing is deleted.
C6_InvalidSnapshotChangesNothing ==
    [][ \A t \in TaskIds :
          LET r == tasks[t]
              app_type == AppTypes[r.app]
          IN  ( /\ r.pc = "apply_delete"
                /\ ~ValidSnapshot(r.data[1].admin_config[1][app_type][1])
                /\ tasks'[t] # r )
              => /\ providers'[app_type] = providers[app_type]
                 /\ current'[app_type] = current[app_type]
                 /\ h_log'[t] = h_log[t]
                 /\ tasks'[t].pc = "sleep"
                 /\ tasks'[t].result \in { Some(MissingCurrent(app_type)),
                                            Some(CurrentNotFound(app_type)) } ]_vars

\* C6 witness: a run has ended on a codex snapshot whose current provider is
\* not among its providers, and the local codex providers are still there
\* (the claude snapshot before it was applied).
C6_Witness ==
    /\ tasks["recurring"].result = Some(CurrentNotFound("codex"))
    /\ providers["codex"] = << Entry("b", "x") >>
    /\ current["codex"] = "b"
    /\ providers["claude"] = << Entry("c", "y") >>

\* C7: when a task has switched the active provider, the last step of
\* applying a per-app-type snapshot, the local providers of that app type
\* are exactly the pushed ones, the active provider is the pushed current
\* id, and the store writes the task made for it are: delete all, add each
\* pushed provider in order, switch.
C7_ApplyReplacesProviders ==
    [][ \A t \in TaskIds :
          LET r == tasks[t]
              app_type == AppTypes[r.app]
              snapshot == r.data[1].admin_config[1][app_type][1]
          IN  ( /\ r.pc = "apply_switch"
                /\ tasks'[t].pc # "apply_switch"
                /\ tasks'[t].result = None )
              => /\ ValidSnapshot(snapshot)
                 /\ providers'[app_type] = snapshot.providers
                 /\ current'[app_type] = snapshot.current_id[1]
                 /\ Len(h_log'[t]) >= Len(snapshot.providers) + 2
                 /\ LastN(h_log'[t], Len(snapshot.providers) + 2)
                       = AppLog(app_type, snapshot) ]_vars

\* C7 witness: a document with two claude providers and one codex provider
\* has been applied over a local store that held other providers.
C7_Witness ==
    /\ tasks["recurring"].pc = "set_version"
    /\ tasks["recurring"].data = Some(Parsed(TRUE, Some(DocB), Some(2)))
    /\ providers["claude"] = << Entry("b", "y"), Entry("c", "x") >>
    /\ providers["codex"] = << Entry("a", "y") >>
    /\ current["claude"] = "b" /\ current["codex"] = "a"
    /\ h_start["recurring"] = Some(<< "1" >>)

\* C10: the applied-version setting changes only in the step of a task whose
\* response is ok and has a config and a version, after that task has, in
\* this run, applied every per-app-type snapshot of that config, all of
\* them valid; the setting then holds the decimal text of that version.  In
\* every other step, and so in every run without a config or with a failed
\* apply, the setting keeps its value.
C10_VersionPersistedAfterApply ==
    [][ settings'[SETTINGS_APPLIED_ADMIN_VERSION] # settings[SETTINGS_APPLIED_ADMIN_VERSION]
        => \E t \in TaskIds :
             LET r == tasks[t] IN
             /\ r.pc = "set_version"
             /\ r.data # None
             /\ r.data[1].ok
             /\ r.data[1].admin_config # None
             /\ r.data[1].admin_version # None
             /\ \A a \in Range(AppTypes) :
                   r.data[1].admin_config[1][a] # None
                   => ValidSnapshot(r.data[1].admin_config[1][a][1])
             /\ LET log == ApplyLog(r.data[1].admin_config[1])
                IN  /\ Len(h_log[t]) >= Len(log)
                    /\ LastN(h_log[t], Len(log)) = log
             /\ settings'[SETTINGS_APPLIED_ADMIN_VERSION] # None
             /\ parse_i64(settings'[SETTINGS_APPLIED_ADMIN_VERSION][1])
                   = r.data[1].admin_version ]_vars

\* C10 witness: a run that began with applied version 1 has applied the
\* config of its response and persisted the version of that response, 2.
C10_Witness ==
    /\ tasks["recurring"].result = Some(Ok)
    /\ tasks["recurring"].data = Some(Parsed(TRUE, Some(DocB), Some(2)))
    /\ h_start["recurring"] = Some(<< "1" >>)
    /\ settings[SETTINGS_APPLIED_ADMIN_VERSION] = Some(<< "2" >>)

(***************************************************************************)
(* Properties of the scheduler                                             *)
(***************************************************************************)
\* Seconds since midnight, in UTC+8, of an instant.
LocalSecondOfDay(instant) == (instant + 8 * 3600) % 86400

\* C8: the delay computed at an instant is the time from it to the next
\* 04:00:00 in UTC+8: to 04:00 of the same local day when the local time is
\* before 04:00, to 04:00 of the next local day when it is 04:00 or later;
\* it is more than 0 and at most 24 hours.
C8_DelayToNextFourAm ==
    delay # None =>
        LET t == LocalSecondOfDay(clock)
        IN  /\ delay[1] = (IF t < 4 * 3600 THEN 4 * 3600 - t ELSE 86400 + 4 * 3600 - t)
            /\ delay[1] > 0
            /\ delay[1] <= 86400
            /\ LocalSecondOfDay(clock + delay[1]) = 4 * 3600

\* C8 witness: at 23:59:59 of 2023-12-31 in UTC+8 the delay is 4 hours and
\* one second, to 04:00 of 2024-01-01.
C8_Witness ==
    /\ clock = days_from_civil(2023, 12, 31) * 86400 + 16 * 3600 - 1
    /\ delay = Some(4 * 3600 + 1)

(***************************************************************************)
(* Properties of a sync round                                              *)
(***************************************************************************)
\* The positions of run_once after an ok response has been received.
AfterOkResponse == { "apply_delete", "apply_add", "apply_switch", "set_version", "set_last_sync" }
\* The positions of a task between two runs.
AtRest == { "off", "sleep", "done" }

\* C11: a run that has received a response with ok = true ends, unless a
\* call to the settings or provider store itself failed, with the last-sync
\* setting holding the time of that moment, whether the response had a
\* config or not and whether applying it succeeded or not.
C11_LastSyncPersistedOnOk ==
    [][ \A t \in TaskIds :
          ( /\ tasks[t].pc \in AfterOkResponse
            /\ tasks'[t].pc \in AtRest
            /\ tasks'[t].result # Some(Err("store")) )
          => settings'[SETTINGS_LAST_SYNC_AT] = Some(to_rfc3339(clock)) ]_vars

\* C11 witness: a run whose ok response carried a config without a current
\* provider for claude has ended with the validation error, and no
\* last-sync time is stored.
C11_Witness ==
    /\ tasks["recurring"].pc = "sleep"
    /\ tasks["recurring"].data = Some(Parsed(TRUE, Some(DocNoCurrent), Some(3)))
    /\ tasks["recurring"].result = Some(MissingCurrent("claude"))
    /\ settings[SETTINGS_LAST_SYNC_AT] = None


\* The responses after which run_once returns an error without looking at a body.
FailedRequests == { "transport", "status" }

\* C12: when the request of a run fails in transport or is answered with a status that is not a success, the run is over at that step with an error (the task is at rest with no request left to send again), and the providers, the current providers and every setting are as they were; since the run began it has written nothing but the device id, and the applied version is the one the run began with.
C12_FailedRequestChangesNothing ==
    [][ \A t \in TaskIds :
          ( /\ tasks[t].pc = "await"
            /\ IsSome(tasks'[t].data)
            /\ Unwrap(tasks'[t].data).kind \in FailedRequests )
          => /\ tasks'[t].pc \in AtRest
             /\ tasks'[t].request = None
             /\ tasks'[t].result \in { Some(Err("Sync request failed")),
                                       Some(Err("Sync failed with status")) }
             /\ providers' = providers
             /\ current' = current
             /\ settings' = settings
             /\ settings'[SETTINGS_APPLIED_ADMIN_VERSION] = h_start[t]
             /\ \A i \in DOMAIN h_log'[t] : h_log'[t][i][2] = SETTINGS_DEVICE_ID ]_vars

\* A run of the loop on a client with providers and applied version 1 got status 500.
C12_Witness ==
    /\ tasks["recurring"].pc = "sleep"
    /\ tasks["recurring"].data = Some(Status(500))
    /\ tasks["recurring"].result = Some(Err("Sync failed with status"))
    /\ h_start["recurring"] = Some(<< "1" >>)
    /\ providers # NoProviders


(***************************************************************************)
(* SpecLog: the snapshot log.  Devices sync, always reporting the same     *)
(* body, among single pushes and detail reads, at most two requests at a   *)
(* time; any statement may fail.  The syncs answered and the syncs lost    *)
(* after their insert are counted.                                         *)
(***************************************************************************)
NoSyncs == [ d \in DeviceIds |-> [ ok |-> 0, lost |-> 0 ] ]

InitLog ==
    /\ InitStore(None, 0) /\ InitHistory(FALSE, Some(NoSyncs)) /\ json_order = "kept"
    /\ ClientAtRest

NextLog ==
    \E s \in Slots :
        \/ SyncRequest(s, { Bearer(sync_token) }, DeviceIds, PlainSync)
        \/ PushRequest(s, { Bearer(admin_token) }, { "d1" })
        \/ DetailRequest(s, { Bearer(admin_token) }, { "d1" })
        \/ StorageError(s)

SpecLog == InitLog /\ [][NextLog]_vars

(***************************************************************************)
(* Properties of the snapshot log                                          *)
(***************************************************************************)
\* The snapshots logged for a device id.
SnapshotsOf(rows, device_id) ==
    Cardinality({ i \in DOMAIN rows : rows[i].device_id = device_id })

\* The sync requests of a device id that have inserted and are not answered.
SyncsInserted(device_id) ==
    Cardinality({ s \in Slots : /\ reqs[s].kind = "sync"
                                 /\ reqs[s].pc = "fetch"
                                 /\ reqs[s].payload.device_id = device_id })

\* The sync requests of a device id that are being handled.
SyncsInFlight(device_id) ==
    { s \in Slots : reqs[s].kind = "sync" /\ reqs[s].payload.device_id = device_id }

\* C13 (as amended): no step changes or removes a logged snapshot, a step adds at most one, and the insert of a sync adds one for its device id with the body and time of the request whether or not that body is logged already; the number of snapshots of a device is the number of its syncs answered with ok plus the number of its syncs that have inserted and are unanswered or failed afterwards.
C13_LogAppendOnly ==
    [][ /\ Len(config_snapshots') \in { Len(config_snapshots), Len(config_snapshots) + 1 }
        /\ SubSeq(config_snapshots', 1, Len(config_snapshots)) = config_snapshots
        /\ \A s \in Slots :
              ( reqs[s].kind = "sync" /\ reqs[s].pc = "insert" /\ reqs'[s].pc = "fetch" )
              => /\ Len(config_snapshots') = Len(config_snapshots) + 1
                 /\ LET row == config_snapshots'[Len(config_snapshots')]
                    IN  /\ row.device_id = reqs[s].payload.device_id
                        /\ row.snapshot = stored_body(reqs[s].payload.snapshot, json_order)
                        /\ row.created_at = reqs[s].now
        /\ \A d \in DeviceIds :
              SnapshotsOf(config_snapshots', d)
                 = Unwrap(h_syncs')[d].ok + Unwrap(h_syncs')[d].lost + SyncsInserted(d)' ]_vars

\* C13 (as stated): whenever no sync of a device is being handled, the number of its snapshots is the number of its syncs answered with ok.
C13_SnapshotsCountSuccessfulSyncs ==
    \A d \in DeviceIds :
        SyncsInFlight(d) = {} => SnapshotsOf(config_snapshots, d) = Unwrap(h_syncs)[d].ok

\* C13 witness: a device has two snapshots with the same body, and both of
\* its syncs were answered with ok.
C13_Witness ==
    /\ Len(config_snapshots) = 2
    /\ config_snapshots[1].device_id = "d1"
    /\ config_snapshots[2].device_id = "d1"
    /\ config_snapshots[1].snapshot = config_snapshots[2].snapshot
    /\ Unwrap(h_syncs)["d1"].ok = 2
    /\ IsOk("sync")


(***************************************************************************)
(* SpecListing: the device detail over a long log.  One device syncs, up   *)
(* to MaxListed times, while time passes and its detail is read; the       *)
(* requests arrive one after the other.                                    *)
(***************************************************************************)
NextListing ==
    \/ Tick
    \/ SyncRequestUpTo(1, { Bearer(sync_token) }, { "d1" }, PlainSync, MaxListed)
    \/ DetailRequest(1, { Bearer(admin_token) }, { "d1" })

SpecListing == Init /\ [][NextListing]_vars

(***************************************************************************)
(* Properties of the device detail                                         *)
(***************************************************************************)
\* The listing shows `count` rows of the log of device_id, each once, newest
\* first, and no row it leaves out is newer than a row it shows.
MostRecent(listing, rows, device_id, count) ==
    LET mine == { i \in DOMAIN rows : rows[i].device_id = device_id }
        shown == { listing[i].id : i \in DOMAIN listing }
    IN  /\ Len(listing) = count
        /\ Cardinality(shown) = count
        /\ \A i \in DOMAIN listing :
              /\ listing[i].id \in mine
              /\ listing[i].created_at = rows[listing[i].id].created_at
              /\ listing[i].snapshot = rows[listing[i].id].snapshot
        /\ \A i, j \in DOMAIN listing : i < j => listing[i].created_at >= listing[j].created_at
        /\ \A m \in mine \ shown : \A i \in DOMAIN listing :
              rows[m].created_at <= listing[i].created_at

\* C14: the listing statement of the device detail, run on a log that holds n snapshots of the device, gives min(20, n) of them, the most recently created, newest first; the summary statement, run on a log that holds n, gives the count n, above 20 too; and the response carries that count and that listing.
C14_ListingMostRecentTwenty ==
    [][ \A s \in Slots :
          LET r == reqs[s]
              n == SnapshotsOf(config_snapshots, r.device_id)
          IN  r.kind = "detail" =>
                /\ ( r.pc = "q_summary" /\ reqs'[s].pc = "q_snapshots" )
                   => reqs'[s].summary.snapshot_count = n
                /\ ( r.pc = "q_snapshots" /\ reqs'[s].pc = "q_admin" )
                   => MostRecent(reqs'[s].snapshots, config_snapshots, r.device_id,
                                 IF n < 20 THEN n ELSE 20)
                /\ ( r.pc = "q_admin" /\ reqs'[s].pc = "idle" )
                   => /\ response'.snapshots = r.snapshots
                      /\ response'.device.snapshot_count = r.summary.snapshot_count ]_vars

\* C14 witness: a detail that reports 21 snapshots and lists 20, the first
\* created at time 1 and the last at time 0.
C14_Witness ==
    /\ IsOk("detail")
    /\ response.device.snapshot_count = 21
    /\ Len(response.snapshots) = 20
    /\ response.snapshots[1].created_at = 1
    /\ response.snapshots[20].created_at = 0


(***************************************************************************)
(* SpecRoundTrip: a client and the server.  The POST of the recurring task *)
(* arrives at the server, which handles it while the detail of the device  *)
(* is read; the client is answered without a config, or with a failure,    *)
(* so its providers stay as they are.  The server is of any build.  No     *)
(* statement on the way reads the clock for anything but a timestamp, so   *)
(* the clock stands still.                                                 *)
(***************************************************************************)
\* The device id the server receives for the text the client sends.
DeviceOf(device_id) == IF device_id = Sha256Hex(machine_uid) THEN "d1" ELSE "d2"

\* The POST is sent and arrives: .json(&payload).send() and Json(payload).
Post(t, s) ==
    LET r == tasks[t] IN
    /\ r.pc = "send"
    /\ tasks' = [ tasks EXCEPT ![t] =
          [ r EXCEPT !.pc = "await", !.request = Some(Payload(r)) ] ]
    /\ Arrive(s, Bearer(build.token), DeviceOf(r.device_id),
              SyncInput(Some(build.app_version), r.applied, to_json(r.snapshot), "ip1"),
              MaxSnapshots)
    /\ UNCHANGED << devices, config_snapshots, admin_configs, admin_basic, json_order, clock >>
    /\ UNCHANGED histVars
    /\ UNCHANGED << build, settings, providers, current, delay, h_log, h_start >>

PlainAnswers == { Parsed(TRUE, None, None), Status(500) }

InitRoundTrip ==
    /\ InitStore(None, 0) /\ InitHistory(FALSE, None)
    /\ json_order \in JsonOrders
    /\ \E db \in LocalSettings, store \in LocalProviders :
          InitClient(Build("https://m", "sync-secret", FALSE), db, store, ActiveOf(store))

NextRoundTrip ==
    \/ \E uid \in { Some(machine_uid) } : Begin("recurring", uid, TRUE)
    \/ SetDeviceId("recurring")
    \/ GetApplied("recurring")
    \/ CollectList("recurring")
    \/ CollectCurrent("recurring")
    \/ \E outcome \in PlainAnswers : Receive("recurring", outcome)
    \/ SetLastSync("recurring")
    \/ \E s \in Slots :
        \/ Post("recurring", s)
        \/ SyncUpsert(s)
        \/ SyncInsert(s)
        \/ SyncFetch(s)
        \/ DetailRequest(s, { Bearer(admin_token) }, { "d1" })

SpecRoundTrip == InitRoundTrip /\ [][NextRoundTrip]_vars

(***************************************************************************)
(* Properties of the round trip                                            *)
(***************************************************************************)
\* What collect_snapshot gives for the providers the client has.
CollectedBody ==
    LET app(app_type) ==
            IF providers[app_type] = << >> THEN None
            ELSE Some(AppProviderSnapshot(
                        IF IsBlank(current[app_type]) THEN None ELSE Some(current[app_type]),
                        providers[app_type]))
    IN  DeviceConfigSnapshot(app("claude"), app("codex"), app("gemini"))

HasDeviceId(db) ==
    /\ IsSome(db[SETTINGS_DEVICE_ID])
    /\ \E i \in DOMAIN Unwrap(db[SETTINGS_DEVICE_ID]) : Unwrap(db[SETTINGS_DEVICE_ID])[i] # " "

\* The errors of run_once before it has a device id, the fingerprint aside.
EarlyErrors == { Some(Err("Management base URL is empty at build time")),
                 Some(Err("Management token is empty at build time")),
                 Some(Err("settings store")) }
NoFingerprint == Some(Err("Failed to read hardware fingerprint"))

InitAuth ==
    /\ \E basic \in { None, Some(basic_pair) } : InitServer(basic, FALSE, 0)
    /\ ClientAtRest

NextAuth ==
    \/ \E header \in Headers : ListDevices(header)
    \/ SyncRequest(1, Headers, { "d1", "" }, PlainSync)
    \/ PushRequest(1, Headers, { "d1", "" })
    \/ BatchRequest(1, Headers)
    \/ DetailRequest(1, Headers, { "d1" })

SpecAuth == InitAuth /\ [][NextAuth]_vars

(***************************************************************************)
(* Properties of the authorization                                         *)
(***************************************************************************)
\* The header is a valid credential for the endpoint: the sync secret as
\* bearer token for the sync endpoint; for an admin endpoint the admin
\* secret as bearer token or, with a basic pair configured, that pair.
ValidCredential(endpoint, header) ==
    IF endpoint = "sync" THEN header = << "Bearer", "sync-secret" >>
    ELSE \/ header = << "Bearer", "admin-secret" >>
         \/ /\ admin_basic # None
            /\ header = << "Basic", admin_basic[1][1], admin_basic[1][2] >>

BatchFailed ==
    /\ response.kind = "error"
    /\ response.status = 500
    /\ response.h_request.kind = "batch"
    /\ response.h_request.pc = "loop"

\* C18: when a write of a batch fails after the batch has written some of the registered ids, every id it has written still has its admin config, at the version that write returned or a later one and with the config of the batch if the version is that one; the ids it had not yet written are not written by it; and the response is a 500 that carries no count.
C18_BatchNotTransactional ==
    BatchFailed =>
        LET r == response.h_request
            written == { r.h_wrote[i].device_id : i \in DOMAIN r.h_wrote }
        IN  /\ \A i \in DOMAIN r.h_wrote :
                  LET row == admin_row(admin_configs, r.h_wrote[i].device_id)
                  IN  /\ IsSome(row)
                      /\ r.h_wrote[i].version >= 1
                      /\ Unwrap(row).version >= r.h_wrote[i].version
                      /\ Unwrap(row).version = r.h_wrote[i].version
                            => Unwrap(row).config = r.config
            /\ Len(r.h_wrote) = r.updated
            /\ r.todo # {}
            /\ r.todo \cap written = {}
            /\ r.todo \cup written = Range(r.device_ids) \cap r.h_registered
            /\ \A d \in r.todo : StoredVersion(d) = Len(h_ret[d])
            /\ "updated" \notin DOMAIN response

\* C18 witness: a batch for d1 and d2 failed after it had written d1: d1
\* has version 1, d2 has no admin config.
C18_Witness ==
    /\ BatchFailed
    /\ Len(response.h_request.h_wrote) = 1
    /\ response.h_request.h_wrote[1].device_id = "d1"
    /\ response.h_request.todo = { "d2" }
    /\ StoredVersion("d1") = 1
    /\ StoredVersion("d2") = 0


(***************************************************************************)
(* Properties of an apply that fails                                       *)
(***************************************************************************)
\* The positions of a task inside apply_admin_config.
InApply == { "apply_delete", "apply_add", "apply_switch" }

\* The provider-store writes among the store writes of a run.
ProviderWrites(log) == SelectSeq(log, LAMBDA entry : entry[1] # "set")
\* The provider-store writes of a run for one app type.
WritesFor(log, app_type) ==
    SelectSeq(log, LAMBDA entry : entry[1] # "set" /\ entry[2] = app_type)

\* The store writes that applying the snapshots of a document before its
\* i-th app type makes, in the order claude, codex, gemini.
RECURSIVE AppliedBefore(_, _)
AppliedBefore(config, i) ==
    IF i <= 1 THEN << >>
    ELSE AppliedBefore(config, i - 1)
         \o (IF config[AppTypes[i - 1]] = None THEN << >>
             ELSE AppLog(AppTypes[i - 1], config[AppTypes[i - 1]][1]))

\* The store writes a task has made for the snapshot it is applying.
AppliedSoFar(r, app_type, snapshot) ==
    IF r.pc = "apply_delete" THEN << >>
    ELSE IF r.pc = "apply_add" THEN SubSeq(AppLog(app_type, snapshot), 1, r.k)
    ELSE SubSeq(AppLog(app_type, snapshot), 1, Len(snapshot.providers) + 1)

\* The step of task t ends its run inside apply_admin_config.
ApplyFails(t) == tasks[t].pc \in InApply /\ tasks'[t].pc \in AtRest

\* What holds of every failing apply: the step that fails writes nothing and
\* the run returns an error; the app types of the document before the
\* failing one hold the pushed providers and current provider; the provider
\* writes of the run are those of the app types before it, in the order
\* claude, codex, gemini, and then those made for the failing one; no later
\* app type has been written; the applied version is the one the run began
\* with.
StopsAtFirstFailure(t) ==
    LET r == tasks[t]
        config == r.data[1].admin_config[1]
        app_type == AppTypes[r.app]
    IN  /\ tasks'[t].result # None
        /\ tasks'[t].result # Some(Ok)
        /\ providers' = providers /\ current' = current /\ settings' = settings
        /\ h_log'[t] = h_log[t]
        /\ \A i \in 1..(r.app - 1) :
              config[AppTypes[i]] # None
              => /\ providers[AppTypes[i]] = config[AppTypes[i]][1].providers
                 /\ current[AppTypes[i]] = config[AppTypes[i]][1].current_id[1]
        /\ ProviderWrites(h_log[t])
              = AppliedBefore(config, r.app) \o AppliedSoFar(r, app_type, config[app_type][1])
        /\ \A i \in (r.app + 1)..Len(AppTypes) : WritesFor(h_log[t], AppTypes[i]) = << >>
        /\ settings'[SETTINGS_APPLIED_ADMIN_VERSION] = h_start[t]

LoopStart == FirstDay * SECONDS_PER_DAY
WakeInstant(n) ==
    IF n = 0 THEN LoopStart
    ELSE LoopStart + 20 * 3600 + (n - 1) * SECONDS_PER_DAY

\* start(), the recurring loop: tokio::time::sleep(delay).await is over and
\* Self::run_once(&scheduler_handle) begins.
WakeAndRun(uid, read) ==
    /\ delay # None
    /\ clock + Unwrap(delay) <= WakeInstant(MaxLoopDays)
    /\ clock' = clock + Unwrap(delay)
    /\ delay' = None
    /\ response' = NoResponse
    /\ Begins("recurring", uid, read)
    /\ UNCHANGED << devices, config_snapshots, admin_configs, admin_basic, json_order, reqs, histVars >>
    /\ UNCHANGED << build, settings, providers, current >>

\* Answers to the POST: a failed request, no config, a config that is
\* applied, a config whose apply fails.
LoopOutcomes ==
    { TransportFailure,
      Parsed(TRUE, None, None),
      Parsed(TRUE, Some(DocA), Some(1)),
      Parsed(TRUE, Some(DocNoCurrent), Some(3)) }

\* Answers to the POST of the startup run.
StartupOutcomes == { TransportFailure, Parsed(TRUE, None, None) }

InitLoop ==
    /\ InitServer(None, FALSE, LoopStart)
    /\ \E b \in { Build("https://m", "sync-secret", TRUE), Build("", "sync-secret", TRUE) } :
          InitClient(b, NoSettings, NoProviders, NoneActive)

LoopWakes == \E uid \in { None, Some(machine_uid) }, read \in BOOLEAN : WakeAndRun(uid, read)
LoopSteps == RunSteps("recurring", LoopOutcomes)

NextLoop ==
    \/ Schedule
    \/ LoopWakes
    \/ LoopSteps
    \/ RunOnce("startup", StartupOutcomes)

LoopFairness ==
    /\ WF_vars(Schedule)
    /\ WF_vars(LoopWakes)
    /\ WF_vars(LoopSteps)

SpecLoop == InitLoop /\ [][NextLoop]_vars /\ LoopFairness


(***************************************************************************)
(* Properties of the recurring loop                                        *)
(***************************************************************************)
\* A run of the recurring loop has begun in the step: it is in progress, or
\* it has returned an error at once.
LoopRunBegun ==
    /\ h_log'["recurring"] = << >>
    /\ tasks'["recurring"].pc \in AtRest
          => /\ tasks'["recurring"].pc = "sleep"
             /\ tasks'["recurring"].result # None
             /\ tasks'["recurring"].result # Some(Ok)

\* C20: the recurring loop wakes at 04:00 (UTC+8) of the first day and then of every following day, whatever its runs and the startup run return: from each wake on, the next wake eventually comes.  The clock of the loop moves only when its sleep is over, by the delay it computed after the last run, and a run begins in that step; a run that returns, with Ok or an error, leaves the loop asleep with no delay, and the next delay is computed afresh from the clock; no step of the startup task changes the recurring task, its delay or its clock.
C20_LoopRunsAgain ==
    /\ \A n \in 0..(MaxLoopDays - 1) :
          (clock = WakeInstant(n)) ~> (clock = WakeInstant(n + 1))
    /\ [][ clock' # clock
           => /\ tasks["recurring"].pc = "sleep"
              /\ delay = Some(next_beijing_4am_delay(clock))
              /\ clock' = clock + delay[1]
              /\ delay' = None
              /\ LoopRunBegun ]_vars
    /\ [][ ( tasks["recurring"].pc \notin AtRest /\ tasks'["recurring"].pc \in AtRest )
           => /\ tasks'["recurring"].pc = "sleep"
              /\ tasks'["recurring"].result # None
              /\ delay' = None ]_vars
    /\ [][ ( delay = None /\ delay' # None )
           => /\ tasks["recurring"].pc = "sleep"
              /\ delay' = Some(next_beijing_4am_delay(clock))
              /\ UNCHANGED tasks ]_vars
    /\ [][ tasks'["startup"] # tasks["startup"]
           => /\ tasks'["recurring"] = tasks["recurring"]
              /\ delay' = delay
              /\ clock' = clock ]_vars

\* C20 witness: in a build without a base URL the startup run has failed and
\* the recurring loop has woken a second time, after a first run that
\* failed, and its second run has failed too.
C20_Witness ==
    /\ IsBlank(build.url)
    /\ clock = WakeInstant(2)
    /\ tasks["startup"].pc = "done"
    /\ tasks["startup"].result = Some(Err("Management base URL is empty at build time"))
    /\ tasks["recurring"].pc = "sleep"
    /\ tasks["recurring"].result = Some(Err("Management base URL is empty at build time"))
    /\ delay # None


(***************************************************************************)
(* SpecTriggers: the two tasks of start(), in builds with and without      *)
(* SYNC_ON_START.  Each task begins run_once when its sleep is over and    *)
(* takes its steps whenever it is polled; the server is whatever answers.  *)
(***************************************************************************)
InitTriggers ==
    /\ InitServer(None, FALSE, 0)
    /\ \E b \in Builds(TRUE) \cup Builds(FALSE) :
          InitClient(b, NoSettings, NoProviders, NoneActive)

NextTriggers ==
    \/ RunOnce("startup", StartupOutcomes)
    \/ RunOnce("recurring", LoopOutcomes)

SpecTriggers == InitTriggers /\ [][NextTriggers]_vars

(***************************************************************************)
(* Properties of the two triggers                                          *)
(***************************************************************************)
\* The tasks that are inside run_once.
InFlight == { t \in TaskIds : tasks[t].pc \notin AtRest }

\* C21: in a build without SYNC_ON_START the startup task is never spawned and at most one run_once is in flight at any time; in every build a task whose sleep is over can begin run_once whatever the other task is doing, and a task inside run_once can take its next step whatever the other task is doing: no lock or in-flight guard holds a run back.
C21_TriggersUnsynchronized ==
    /\ ~build.sync_on_start
          => /\ tasks["startup"].pc = "off"
             /\ InFlight \subseteq { "recurring" }
    /\ \A t \in TaskIds :
          /\ tasks[t].pc = "sleep"
                => ENABLED (\E uid \in { None, Some(machine_uid) }, read \in BOOLEAN :
                               Begin(t, uid, read))
          /\ t \in InFlight => ENABLED RunSteps(t, LoopOutcomes)

\* C21 witness: in a build with SYNC_ON_START the startup run and a
\* recurring run have both sent their request and wait for the answer.
C21_Witness ==
    /\ build.sync_on_start
    /\ InFlight = { "startup", "recurring" }
    /\ tasks["startup"].pc = "await"
    /\ tasks["recurring"].pc = "await"


(***************************************************************************)
(* Properties of what a request leaves alone                               *)
(***************************************************************************)
\* The rows of a table (a set of rows) that are not of device_id.
RowsOfOthers(rows, device_id) == { row \in rows : row.device_id # device_id }
\* The rows of the snapshot log that are not of device_id, in their order.
SnapshotsOfOthers(rows, device_id) ==
    SelectSeq(rows, LAMBDA row : row.device_id # device_id)

\* Slot s takes a step of the request it holds.
Steps(s, kind) == reqs[s].kind = kind /\ reqs'[s] # reqs[s]

\* C23: every step of a sync request for a device id leaves the admin configs as they are, leaves the registry rows and the logged snapshots of every other id as they are and never removes or changes a logged snapshot; its insert step appends exactly one snapshot, of that id, and no other step of it touches the log; only its upsert step touches the registry, and after it the registry has exactly one row of that id.  Every step of a single push for a device id leaves the registry and the snapshot log as they are and leaves the admin-config rows of every other id as they are.  A request that arrives changes no table.
C23_RequestsTouchOwnRowsOnly ==
    [][ \A s \in Slots :
          /\ Steps(s, "sync") =>
                LET d == reqs[s].payload.device_id IN
                /\ admin_configs' = admin_configs
                /\ RowsOfOthers(devices', d) = RowsOfOthers(devices, d)
                /\ SnapshotsOfOthers(config_snapshots', d) = SnapshotsOfOthers(config_snapshots, d)
                /\ SubSeq(config_snapshots', 1, Len(config_snapshots)) = config_snapshots
                /\ Len(config_snapshots') =
                      Len(config_snapshots)
                      + (IF reqs[s].pc = "insert" /\ reqs'[s].pc = "fetch" THEN 1 ELSE 0)
                /\ devices' # devices => reqs[s].pc = "upsert"
                /\ ( reqs[s].pc = "upsert" /\ reqs'[s].pc = "insert" )
                      => Cardinality({ row \in devices' : row.device_id = d }) = 1
          /\ Steps(s, "push") =>
                /\ devices' = devices
                /\ config_snapshots' = config_snapshots
                /\ RowsOfOthers(admin_configs', reqs[s].device_id)
                      = RowsOfOthers(admin_configs, reqs[s].device_id)
          /\ Steps(s, "idle") =>
                /\ devices' = devices
                /\ config_snapshots' = config_snapshots
                /\ admin_configs' = admin_configs ]_vars

\* C23 witness: d2 is registered, has logged a snapshot and has an admin
\* config; a sync of d1 has answered and a push for d1 has been made, and
\* the rows of d2 are still the only ones of d2, at version 1.
C23_Witness ==
    /\ StoredVersion("d1") = 1
    /\ StoredVersion("d2") = 1
    /\ Cardinality({ row \in devices : row.device_id = "d1" }) = 1
    /\ Cardinality({ row \in devices : row.device_id = "d2" }) = 1
    /\ Len(config_snapshots) = 2
    /\ config_snapshots[1].device_id = "d2"
    /\ config_snapshots[2].device_id = "d1"
    /\ response.kind = "push" /\ response.device_id = "d1"


(***************************************************************************)
(* Properties of pushes to ids that have not synced                        *)
(***************************************************************************)
\* The registry has a row of device_id.
Registered(device_id) == \E row \in devices : row.device_id = device_id

\* C24: a single push that answers has stored its config for its device id at the version it returns, one more than the version stored before and 1 when there was none, whether or not the registry has a row of that id, and it leaves the registry as it is; a step of a batch changes the admin config only of ids the registry has a row of; a sync that answers gives the config and version stored for its id at that moment, none if there is none, and its id is registered by then.
C24_SinglePushIgnoresRegistry ==
    [][ \A s \in Slots :
          /\ ( Steps(s, "push") /\ response'.kind = "push" ) =>
                LET d == reqs[s].device_id
                    row == admin_row(admin_configs', d)
                IN  /\ IsSome(row)
                    /\ Unwrap(row).config = reqs[s].config
                    /\ Unwrap(row).version = StoredVersion(d) + 1
                    /\ response'.version = Unwrap(row).version
                    /\ response'.status = 200
                    /\ devices' = devices
          /\ Steps(s, "batch") =>
                \A d \in DeviceIds :
                    admin_row(admin_configs', d) # admin_row(admin_configs, d) => Registered(d)
          /\ ( Steps(s, "sync") /\ response'.kind = "sync" ) =>
                LET d == reqs[s].payload.device_id
                    row == admin_row(admin_configs, d)
                IN  /\ Registered(d)
                    /\ response'.admin_config =
                          IF IsSome(row) THEN Some(Unwrap(row).config) ELSE None
                    /\ response'.admin_version =
                          IF IsSome(row) THEN Some(Unwrap(row).version) ELSE None ]_vars

\* C24 witness: a single push for d1 has answered with version 1 while the
\* registry is empty: d1 has an admin config and no registry row.
C24_Witness ==
    /\ response.kind = "push" /\ response.status = 200
    /\ response.device_id = "d1" /\ response.version = 1
    /\ devices = {}
    /\ StoredVersion("d1") = 1
    /\ ~Registered("d1")


(***************************************************************************)
(* Properties of the snapshot log and the registry                         *)
(***************************************************************************)
\* C25: every logged snapshot is of a device id the registry has a row of, and no step takes a row out of the registry; a sync whose insert of the snapshot fails is answered with a 500 and leaves the snapshot log as it was and the registry as its upsert and the requests since left it, with a row of its device id: the upsert is not undone.
C25_SnapshotsOfRegisteredDevices ==
    /\ [](\A i \in DOMAIN config_snapshots : Registered(config_snapshots[i].device_id))
    /\ [][ /\ \A row \in devices : \E kept \in devices' : kept.device_id = row.device_id
           /\ \A s \in Slots :
                ( /\ Steps(s, "sync")
                  /\ reqs[s].pc = "insert"
                  /\ response'.kind = "error" )
                => /\ response'.status = 500
                   /\ reqs'[s] = Idle
                   /\ config_snapshots' = config_snapshots
                   /\ devices' = devices
                   /\ Registered(reqs[s].payload.device_id) ]_vars

\* C25 witness: d1 registered at time 0 and logged a snapshot; its sync at
\* time 1 has failed at the insert: the answer is a 500, the log still has
\* the one snapshot, and the registry row has last_seen 1.
C25_Witness ==
    /\ response.kind = "error" /\ response.status = 500
    /\ \A s \in Slots : reqs[s] = Idle
    /\ Len(config_snapshots) = 1
    /\ config_snapshots[1].device_id = "d1" /\ config_snapshots[1].created_at = 0
    /\ \E row \in devices :
          row.device_id = "d1" /\ row.created_at = 0 /\ row.last_seen = 1
    /\ Cardinality(devices) = 1


(***************************************************************************)
(* SpecSession: one client and the server, end to end.  The device id is   *)
(* stored; each task posts on its own connection, the sync handler takes   *)
(* its statements and its answer is what the task receives; the admin      *)
(* pushes configs for the device in between.  The build is with or without *)
(* SYNC_ON_START.  The clock stands still: nothing here reads it for       *)
(* anything but a timestamp.                                               *)
(***************************************************************************)
\* The slot that holds the request of a task.
ConnectionOf(t) == IF t = "startup" THEN 1 ELSE 2

\* response.json::<SyncResponse>(): ok, adminConfig and adminVersion of the
\* body; the other members are not read.
parse_response(body) == Parsed(body.ok, body.admin_config, body.admin_version)

\* The sync handler answers and the task receives the answer.
Respond(t) ==
    /\ Fetches(ConnectionOf(t))
    /\ Receives(t, parse_response(response'))
    /\ UNCHANGED << build, settings, providers, current, delay, h_log, h_start >>

\* A statement of the sync handler fails and the task receives the 500.
Break(t) ==
    /\ reqs[ConnectionOf(t)].kind = "sync"
    /\ Errors(ConnectionOf(t))
    /\ Receives(t, Status(response'.status))
    /\ UNCHANGED << build, settings, providers, current, delay, h_log, h_start >>

\* The device id the client has stored.
StoredDeviceId == [ NoSettings EXCEPT ![SETTINGS_DEVICE_ID] = Some(Sha256Hex(machine_uid)) ]

InitSession ==
    /\ InitServer(None, FALSE, 0)
    /\ \E sync_on_start \in BOOLEAN :
          InitClient(Build("https://m", "sync-secret", sync_on_start),
                     StoredDeviceId, NoProviders, NoneActive)

NextSession ==
    \/ \E t \in TaskIds :
        \/ Begin(t, Some(machine_uid), TRUE)
        \/ GetApplied(t)
        \/ CollectList(t)
        \/ CollectCurrent(t)
        \/ Post(t, ConnectionOf(t))
        \/ Respond(t)
        \/ Break(t)
        \/ ApplyDelete(t)
        \/ ApplyAdd(t)
        \/ ApplySwitch(t)
        \/ SetVersion(t)
        \/ SetLastSync(t)
    \/ \E s \in Slots :
        \/ SyncUpsert(s)
        \/ SyncInsert(s)
        \/ PushRequest(s, { Bearer(admin_token) }, { "d1" })

SpecSession == InitSession /\ [][NextSession]_vars


(***************************************************************************)
(* Properties of a session                                                 *)
(***************************************************************************)
\* The applied version the client has stored, 0 if none.
AppliedVersion ==
    LET text == settings[SETTINGS_APPLIED_ADMIN_VERSION]
    IN  IF text = None THEN 0 ELSE DigitsToNat(text[1])

\* C22: when the sync handler answers a task, the answer carries the config and the version stored for the device at that moment whenever there is one, whatever applied version the request carried and whatever applied version the client has stored, the one being answered with included; the task that receives a config goes on to apply it, beginning with the delete of its first app type, and when it has switched the last app type the store writes of its run are those of applying the whole config.
C22_AppliedVersionDoesNotSuppress ==
    [][ \A t \in TaskIds :
          /\ ( tasks[t].pc = "await" /\ tasks'[t].pc # "await" /\ response'.kind = "sync" )
                => LET row == admin_row(admin_configs, response'.device_id) IN
                   /\ response'.device_id = DeviceOf(tasks[t].device_id)
                   /\ IsSome(row) =>
                         /\ response'.admin_config = Some(row[1].config)
                         /\ response'.admin_version = Some(row[1].version)
                         /\ tasks'[t].data
                               = Some(Parsed(TRUE, Some(row[1].config), Some(row[1].version)))
                         /\ tasks'[t].pc = "apply_delete"
                         /\ tasks'[t].app = 1
                   /\ IsNone(row) =>
                         /\ response'.admin_config = None
                         /\ tasks'[t].pc = "set_last_sync"
          /\ ( tasks[t].pc = "apply_switch" /\ tasks'[t].pc = "set_version" )
                => h_log'[t] = ApplyLog(tasks[t].data[1].admin_config[1]) ]_vars

\* C22 witness: a run whose request carried applied version 1, the version
\* the client has stored, was answered with version 1 again and has applied
\* its config again: delete, add, switch.
C22_Witness ==
    LET r == tasks["recurring"] IN
    /\ r.pc = "set_version"
    /\ r.request # None
    /\ r.request[1].applied_admin_version = Some(1)
    /\ AppliedVersion = 1
    /\ r.data = Some(Parsed(TRUE, Some(DocA), Some(1)))
    /\ h_log["recurring"] = ApplyLog(DocA)
    /\ StoredVersion("d1") = 1


\* C26: the applied version the client has stored is never more than the version the server has stored for the device; in a build without SYNC_ON_START, where a run begins only after the run before it has returned, no step makes the applied version smaller, and whenever the version is written the local providers are those of the config that came with it.
C26_AppliedVersionMonotoneWithoutOverlap ==
    /\ [](AppliedVersion <= StoredVersion("d1"))
    /\ [][ ~build.sync_on_start
           => /\ AppliedVersion' >= AppliedVersion
              /\ \A t \in TaskIds :
                    ( tasks[t].pc = "set_version" /\ tasks'[t].pc # "set_version" )
                    => LET config == tasks[t].data[1].admin_config[1] IN
                       /\ AppliedVersion' = tasks[t].data[1].admin_version[1]
                       /\ \A app_type \in Range(AppTypes) :
                             config[app_type] # None
                             => /\ providers'[app_type] = config[app_type][1].providers
                                /\ current'[app_type] = config[app_type][1].current_id[1] ]_vars

\* C26 witness: with SYNC_ON_START the startup run was answered with
\* version 1, a push then made version 2, the recurring run was answered
\* with it, applied it and stored 2, and the startup run has applied and
\* stored last: the applied version is 1 again and the claude providers are
\* those of version 1, while the server holds version 2.
C26_Witness ==
    /\ build.sync_on_start
    /\ tasks["startup"].pc = "done"
    /\ tasks["startup"].result = Some(Ok)
    /\ tasks["startup"].data = Some(Parsed(TRUE, Some(DocA), Some(1)))
    /\ tasks["recurring"].pc = "sleep"
    /\ tasks["recurring"].result = Some(Ok)
    /\ tasks["recurring"].data = Some(Parsed(TRUE, Some(DocB), Some(2)))
    /\ AppliedVersion = 1
    /\ providers["claude"] = DocA.claude[1].providers
    /\ current["claude"] = "a"
    /\ StoredVersion("d1") = 2

=============================================================================
